---- MODULE Spec2Model ----
(***************************************************************************)
(* Alert pipeline of telegram-alert-bot.                                   *)
(*                                                                         *)
(* Part 1 models src/alerts.py: AlertManager (severity gate, cooldown      *)
(* table, grouping, fan-out to the recipients).  One process_alert call is *)
(* in flight at a time; it gives up control at every awaited send, so a    *)
(* call is a sequence of steps: process_alert, then one SendStep per       *)
(* recipient, then Return.                                                 *)
(*                                                                         *)
(* Strings that the code slices or concatenates (sources, messages, keys)  *)
(* are sequences of characters.  Optional values are <<>> (None) or <<v>>. *)
(* Python objects shared by reference (AlertRecord) live in a heap indexed *)
(* by the record id; containers hold ids.                                  *)
(*                                                                         *)
(* Part 2 models src/bot.py: the monitor (RealDataProvider), the bounded   *)
(* history (bot.py AlertManager) and critical_alert_job, which gives up    *)
(* control at the awaited delete_message and send_message of each          *)
(* recipient.                                                              *)
(***************************************************************************)
EXTENDS Integers, Sequences, FiniteSets, TLC

\* ---------------------------------------------------------------- bounds
MaxTime == 2
MaxAlerts == 2
MaxRecipients == 2
MaxMembers == 3
MaxTasks == 2
MaxMessages == 3

\* ------------------------------------------------------ program constants
\* alerts.py:120  elapsed >= 30
BatchSeconds == 30
\* alerts.py:120  group.count >= 3
BatchQuorum == 3
\* alerts.py:75   alert.message[:20]
PrefixLen == 20
\* config.py:56   alert_cooldown default
alert_cooldown == 300
\* bot.py:48      AlertManager(max_history=100)
max_history == 100
\* bot.py:135-140 RealDataProvider thresholds, in percent
CPU_WARNING == 80
CPU_CRITICAL == 95
MEM_WARNING == 80
MEM_CRITICAL == 95
DISK_WARNING == 80
DISK_CRITICAL == 95
\* config.py:45   dashboard_refresh_interval default, in seconds
dashboard_refresh_interval == 30
\* bot.py:1075   run_repeating(critical_alert_job, interval=10)
JobInterval == 10
\* alerts.py:238  timedelta(hours=max_age_hours), in seconds
SecondsPerHour == 3600

\* ------------------------------------------------------------ input sets
Levels == {"info", "warning", "critical"}

RECURSIVE Rep(_, _)
Rep(c, n) == IF n = 0 THEN <<>> ELSE <<c>> \o Rep(c, n - 1)

\* Two messages that agree on the first 20 characters and differ at the 21st.
MsgLongX == Rep("a", PrefixLen) \o <<"x">>
MsgLongY == Rep("a", PrefixLen) \o <<"y">>
Messages == {MsgLongX, MsgLongY}

Sources == {<<"d", "b">>}

\* AlertRecord.timestamp is set by the caller; process_alert never reads it
Timestamps == {0}

\* settings.alert_cooldown is an integer read from the environment
CooldownChoices == {1, 2}

\* settings.allowed_user_ids: a list of user ids read from the environment
RecipientLists == {[i \in 1..n |-> i] : n \in 0..MaxRecipients}

VARIABLES
    now,               \* datetime.utcnow(), in seconds
    recipients,        \* settings.allowed_user_ids
    min_level,         \* AlertManager.min_level
    cooldown_seconds,  \* AlertManager.cooldown_seconds
    grouping_enabled,  \* AlertManager.grouping_enabled
    records,           \* heap of AlertRecord objects: id -> fields
    alerts,            \* AlertManager.alerts: the ids in the dict, insertion order
    groups,            \* AlertManager.groups: group key -> AlertGroup
    cooldowns,         \* AlertManager.cooldowns: alert key -> last notified
    nextId,            \* id the caller gives to the next AlertRecord
    pc,                \* position of the process_alert call in flight
    cur,               \* locals of the call in flight, and what it saw at entry
    sent,              \* send_message attempts of the call in flight
    dispatchedAt,      \* history: alert key -> time of the last dispatch of that key
    ingested,          \* history: group keys an admitted alert was ingested for
    history,           \* bot.py alert_manager.history: deque of AlertRecord objects
    hrecords,          \* heap of bot.py AlertRecord objects: counter -> fields
    alert_counter,     \* alert_manager.alert_counter
    last_critical,     \* alert_manager.last_critical: a reference into the heap
    active_alert_messages, \* alert_manager.active_alert_messages: user -> message id
    monitor_last_alerts,   \* monitor._last_alerts
    monitor_last_critical, \* monitor._last_critical
    chat,              \* Telegram: user -> ids of the bot's messages in the chat
    message_of,        \* Telegram: message id -> the record it shows and its text
    next_message_id,   \* Telegram: id of the next message sent
    jpc,               \* position of the critical_alert_job run in flight
    job,               \* locals of the run in flight
    jlog,              \* delete and send attempts of the run in flight
    maxlen,            \* alert_manager.history.maxlen (the max_history argument)
    ret,               \* the store operation called last and what it returned
    acked_all,         \* history: bot.py acknowledge_all has been called
    waiting,           \* process_alert calls suspended at an awaited send
    active_messages,   \* dashboard_state.active_messages: chat id -> message, in order
    refresh_interval,  \* dashboard_state.refresh_interval
    keyboards,         \* Telegram: the buttons the bot has put into each chat
    upc,               \* position of the update_dashboard run in flight
    upd,               \* locals of that run: the items it iterates over, the index
    ulog               \* edit attempts of that run

amvars == <<now, recipients, min_level, cooldown_seconds, grouping_enabled, records,
            alerts, groups, cooldowns, nextId, pc, cur, sent, dispatchedAt, ingested>>

\* the dashboards of bot.py
dashvars == <<active_messages, refresh_interval, keyboards, upc, upd, ulog>>

botstate == <<history, hrecords, alert_counter, last_critical, active_alert_messages,
              monitor_last_alerts, monitor_last_critical, chat, message_of,
              next_message_id, jpc, job, jlog, maxlen, ret, acked_all, dashvars>>

\* everything the pipeline of alerts.py leaves alone while one call runs
botvars == <<botstate, waiting>>

storevars == <<maxlen, ret, acked_all, waiting, dashvars>>

vars == <<amvars, botvars>>

config == <<recipients, min_level, cooldown_seconds, grouping_enabled>>

\* ------------------------------------------------------------- helpers
Min(a, b) == IF a < b THEN a ELSE b

Range(s) == {s[i] : i \in DOMAIN s}

\* dict[key] = value
Put(f, k, v) == [x \in DOMAIN f \cup {k} |-> IF x = k THEN v ELSE f[x]]

\* s[:n]
Slice(s, n) == SubSeq(s, 1, Min(Len(s), n))

\* level_order.get(level, 0), alerts.py:65-69 and 155-159
level_order(level) ==
    CASE level = "info" -> 0
      [] level = "warning" -> 1
      [] level = "critical" -> 2
      [] OTHER -> 0

\* f"{alert.level}:{alert.source}:{alert.message[:20]}", alerts.py:75, 131, 175
AlertKey(level, source, message) ==
    <<level>> \o <<":">> \o source \o <<":">> \o Slice(message, PrefixLen)

\* f"{alert.level}:{alert.source}", alerts.py:101
GroupKey(level, source) == <<level>> \o <<":">> \o source

KeyOf(r) == AlertKey(r.level, r.source, r.message)

IdleCur == [id |-> 0, alert |-> [level |-> "none", source |-> <<>>, message |-> <<>>],
            key |-> <<>>, gkey |-> <<>>,
            cfg |-> [min_level |-> "none", cooldown_seconds |-> 0, grouping |-> FALSE],
            t0 |-> 0, prior |-> <<>>, fresh |-> FALSE, never_flushed |-> FALSE,
            regrouped |-> FALSE, last_flush |-> <<>>, pending |-> 0,
            admitted |-> FALSE,
            mode |-> "none", idx |-> 0, outcome |-> "none", members |-> <<>>,
            main |-> 0]

\* ------------------------------------------------------------ the filter
should_notify_ignores_cooldown(level, source, message) ==
    ~(level_order(level) < level_order(min_level))

should_notify_ignores_level(level, source, message) ==
    LET alert_key == AlertKey(level, source, message) IN
    ~(/\ alert_key \in DOMAIN cooldowns
      /\ (now - cooldowns[alert_key]) < cooldown_seconds)

should_notify_never_expires(level, source, message) ==
    /\ ~(level_order(level) < level_order(min_level))
    /\ AlertKey(level, source, message) \notin DOMAIN cooldowns

\* AlertManager.should_notify, alerts.py:62-83.  It only reads: the level gate
\* first, then the cooldown gate (a datetime is always truthy, so `if last_notified`
\* is `the key is in the table`).
should_notify(level, source, message) ==
    IF level_order(level) < level_order(min_level)
    THEN FALSE
    ELSE LET alert_key == AlertKey(level, source, message) IN
         IF /\ alert_key \in DOMAIN cooldowns
            /\ (now - cooldowns[alert_key]) < cooldown_seconds
         THEN FALSE
         ELSE TRUE

\* ------------------------------------------------------------ the store
alerts_setitem_dropped(id) == alerts

\* self.alerts[alert.id] = alert, alerts.py:87
alerts_setitem(id) == IF id \in Range(alerts) THEN alerts ELSE Append(alerts, id)

\* ------------------------------------------------------------ grouping
\* self.groups[group_key], alerts.py:103, with self.groups = defaultdict(AlertGroup)
\* (alerts.py:52) and
\*     @dataclass
\*     class AlertGroup: key: str; alerts = []; last_notification = None; count = 0
\* (alerts.py:34-40).  For a missing key the defaultdict calls AlertGroup() with no
\* argument; the field `key` has no default, so the call raises TypeError and the
\* dict is left without the key.  Nothing else ever stores into self.groups.
groups_getitem(group_key) ==
    IF group_key \in DOMAIN groups
    THEN [raised |-> FALSE, group |-> groups[group_key]]
    ELSE [raised |-> TRUE, group |-> <<>>]

RECURSIVE max_by_level_last(_, _, _)
max_by_level_last(heap, ids, best) ==
    IF ids = <<>> THEN best
    ELSE max_by_level_last(heap, Tail(ids),
            IF level_order(heap[Head(ids)].level) >= level_order(heap[best].level)
            THEN Head(ids) ELSE best)

\* max(group.alerts, key=rank), alerts.py:155-159: the first member of the highest rank
RECURSIVE max_by_level(_, _, _)
max_by_level(heap, ids, best) ==
    IF ids = <<>> THEN best
    ELSE max_by_level(heap, Tail(ids),
            IF level_order(heap[Head(ids)].level) > level_order(heap[best].level)
            THEN Head(ids) ELSE best)

\* alerts.py:174-176: self.cooldowns[alert_key] = utcnow() for every member
RECURSIVE stamp_all(_, _, _, _)
stamp_all(cd, heap, ids, t) ==
    IF ids = <<>> THEN cd
    ELSE stamp_all(Put(cd, KeyOf(heap[Head(ids)]), t), heap, Tail(ids), t)

\* alerts.py:177: alert.notification_sent = True for every member
mark_sent(heap, ids) ==
    [i \in DOMAIN heap |->
        IF i \in Range(ids) THEN [heap[i] EXCEPT !.notification_sent = TRUE]
        ELSE heap[i]]

\* alerts.py:173-177, then alerts.py:125-127: what a flush does once the loop over
\* the recipients is over
FlushEnd(heap, grps, group_key) ==
    /\ cooldowns' = stamp_all(cooldowns, heap, grps[group_key].alerts, now)
    /\ records' = mark_sent(heap, grps[group_key].alerts)
    /\ groups' = [grps EXCEPT ![group_key] =
                    [@ EXCEPT !.alerts = <<>>, !.count = 0,
                              !.last_notification = <<now>>]]

\* -------------------------------------------------- process_alert branches
skip_stamping_cooldown(id, alert, entry) ==
    /\ records' = Put(records, id, alert)
    /\ pc' = "done"
    /\ cur' = [entry EXCEPT !.outcome = "skipped"]
    /\ sent' = <<>>
    /\ cooldowns' = Put(cooldowns, entry.key, now)
    /\ UNCHANGED <<groups, dispatchedAt, ingested>>

\* alerts.py:89-91: should_notify said no; the alert stays stored, nothing else
skip(id, alert, entry) ==
    /\ records' = Put(records, id, alert)
    /\ pc' = "done"
    /\ cur' = [entry EXCEPT !.outcome = "skipped"]
    /\ sent' = <<>>
    /\ UNCHANGED <<groups, cooldowns, dispatchedAt, ingested>>

send_notification_unstamped(id, alert, entry) ==
    /\ records' = Put(records, id, alert)
    /\ dispatchedAt' = Put(dispatchedAt, entry.key, now)
    /\ sent' = <<>>
    /\ cur' = [entry EXCEPT !.mode = "single", !.outcome = "dispatched", !.idx = 1,
                            !.members = <<id>>, !.main = id]
    /\ pc' = IF recipients = <<>> THEN "done" ELSE "send"
    /\ UNCHANGED <<groups, cooldowns, ingested>>

send_notification_into_group(id, alert, entry) ==
    /\ cooldowns' = Put(cooldowns, entry.key, now)
    /\ records' = Put(records, id, [alert EXCEPT !.notification_sent = TRUE])
    /\ dispatchedAt' = Put(dispatchedAt, entry.key, now)
    /\ sent' = <<>>
    /\ cur' = [entry EXCEPT !.mode = "single", !.outcome = "dispatched", !.idx = 1,
                            !.members = <<id>>, !.main = id]
    /\ pc' = IF recipients = <<>> THEN "done" ELSE "send"
    /\ groups' = Put(groups, entry.gkey,
                     [key |-> entry.gkey, alerts |-> <<>>,
                      last_notification |-> <<now>>, count |-> 0])
    /\ UNCHANGED ingested

send_notification_resend(id, alert, entry) ==
    /\ cooldowns' = Put(cooldowns, entry.key, now)
    /\ records' = Put(records, id, [alert EXCEPT !.notification_sent = TRUE])
    /\ dispatchedAt' = Put(dispatchedAt, entry.key, now)
    /\ sent' = <<>>
    /\ cur' = [entry EXCEPT !.mode = "single", !.outcome = "dispatched", !.idx = 1,
                            !.members = [i \in 1..id |-> i], !.main = id]
    /\ pc' = IF recipients = <<>> THEN "done" ELSE "send"
    /\ UNCHANGED <<groups, ingested>>

\* AlertManager._send_notification, alerts.py:129-147: the cooldown entry and the
\* flag are written first (132-133), then the loop over the recipients starts
send_notification(id, alert, entry) ==
    /\ cooldowns' = Put(cooldowns, entry.key, now)
    /\ records' = Put(records, id, [alert EXCEPT !.notification_sent = TRUE])
    /\ dispatchedAt' = Put(dispatchedAt, entry.key, now)
    /\ sent' = <<>>
    /\ cur' = [entry EXCEPT !.mode = "single", !.outcome = "dispatched", !.idx = 1,
                            !.members = <<id>>, !.main = id]
    /\ pc' = IF recipients = <<>> THEN "done" ELSE "send"
    /\ UNCHANGED <<groups, ingested>>

\* AlertManager._process_grouped, alerts.py:98-127, up to the first awaited send of
\* AlertManager._send_grouped_notification, alerts.py:149-171
process_grouped(id, alert, entry) ==
    LET group_key == GroupKey(alert.level, alert.source)
        got == groups_getitem(group_key)
        heap == Put(records, id, alert)
    IN
    /\ ingested' = ingested \cup {group_key}
    /\ sent' = <<>>
    /\ IF got.raised
       THEN \* alerts.py:103 raises TypeError and the call ends with it
            /\ records' = heap
            /\ pc' = "done"
            /\ cur' = [entry EXCEPT !.outcome = "TypeError"]
            /\ UNCHANGED <<groups, cooldowns, dispatchedAt>>
       ELSE LET group == [got.group EXCEPT !.key = group_key,
                                            !.alerts = Append(@, id),
                                            !.count = @ + 1]
                grps == [groups EXCEPT ![group_key] = group]
                should_send ==
                    IF alert.level = "critical" THEN TRUE
                    ELSE IF group.last_notification = <<>> THEN TRUE
                    ELSE /\ (now - group.last_notification[1]) >= BatchSeconds
                         /\ group.count >= BatchQuorum
                keys == {KeyOf(heap[i]) : i \in Range(group.alerts)}
            IN
            IF ~should_send
            THEN /\ records' = heap
                 /\ groups' = grps
                 /\ pc' = "done"
                 /\ cur' = [entry EXCEPT !.outcome = "batched"]
                 /\ UNCHANGED <<cooldowns, dispatchedAt>>
            ELSE /\ dispatchedAt' = [k \in DOMAIN dispatchedAt \cup keys |->
                                        IF k \in keys THEN now ELSE dispatchedAt[k]]
                 /\ cur' = [entry EXCEPT
                               !.mode = "grouped", !.outcome = "dispatched", !.idx = 1,
                               !.members = group.alerts,
                               !.main = max_by_level(heap, group.alerts,
                                                     Head(group.alerts))]
                 /\ IF recipients = <<>>
                    THEN \* nothing is awaited: the flush completes in this step
                         /\ pc' = "done"
                         /\ FlushEnd(heap, grps, group_key)
                    ELSE /\ pc' = "send"
                         /\ records' = heap
                         /\ groups' = grps
                         /\ UNCHANGED cooldowns

\* AlertManager._send_grouped_notification, alerts.py:149-177, called with a group
\* the caller built (AlertGroup(key=..., alerts=[...])): nothing for an empty group
\* (151-152); otherwise the main alert is chosen (155-159), rendered with the
\* number of members (161) and sent to every recipient, and after the loop the
\* members are stamped (173-177).  The caller's group is not reset here.
send_grouped_notification(group_key) ==
    /\ pc = "idle"
    /\ group_key \in DOMAIN groups
    /\ sent' = <<>>
    /\ LET members == groups[group_key].alerts IN
       IF members = <<>>
       THEN /\ pc' = "done"
            /\ cur' = [IdleCur EXCEPT !.mode = "flush", !.outcome = "empty",
                                      !.gkey = group_key]
            /\ UNCHANGED <<records, cooldowns>>
       ELSE /\ cur' = [IdleCur EXCEPT
                          !.mode = "flush", !.outcome = "dispatched", !.idx = 1,
                          !.gkey = group_key, !.t0 = now,
                          !.members = members,
                          !.main = max_by_level(records, members, Head(members))]
            /\ IF recipients = <<>>
               THEN /\ pc' = "done"
                    /\ cooldowns' = stamp_all(cooldowns, records, members, now)
                    /\ records' = mark_sent(records, members)
               ELSE /\ pc' = "send"
                    /\ UNCHANGED <<records, cooldowns>>
    /\ UNCHANGED <<now, config, alerts, groups, nextId, dispatchedAt, ingested, botvars>>

\* ------------------------------------------------------------- actions
\* AlertManager.process_alert, alerts.py:85-96.  The caller builds the AlertRecord
\* (a fresh id, both flags False) and passes it in.
process_alert(level, source, message, timestamp) ==
    /\ pc = "idle"
    /\ LET id == nextId
           alert == [level |-> level, message |-> message, source |-> source,
                     timestamp |-> timestamp, acknowledged |-> FALSE,
                     notification_sent |-> FALSE]
           key == AlertKey(level, source, message)
           gkey == GroupKey(level, source)
           entry == [IdleCur EXCEPT
                        !.id = id,
                        !.alert = [level |-> level, source |-> source,
                                   message |-> message],
                        !.key = key,
                        !.gkey = gkey,
                        !.cfg = [min_level |-> min_level,
                                 cooldown_seconds |-> cooldown_seconds,
                                 grouping |-> grouping_enabled],
                        !.t0 = now,
                        !.prior = IF key \in DOMAIN dispatchedAt
                                  THEN <<dispatchedAt[key]>> ELSE <<>>,
                        !.fresh = (key \notin DOMAIN cooldowns),
                        !.never_flushed = (gkey \in DOMAIN groups =>
                                              groups[gkey].last_notification = <<>>),
                        !.regrouped = (gkey \in ingested),
                        !.last_flush = IF gkey \in DOMAIN groups
                                       THEN groups[gkey].last_notification ELSE <<>>,
                        !.pending = IF gkey \in DOMAIN groups
                                    THEN groups[gkey].count + 1 ELSE 1,
                        !.admitted = should_notify(level, source, message)]
       IN /\ nextId' = nextId + 1
          /\ alerts' = alerts_setitem(id)
          /\ IF ~should_notify(level, source, message)
             THEN skip(id, alert, entry)
             ELSE IF grouping_enabled
                  THEN process_grouped(id, alert, entry)
                  ELSE send_notification(id, alert, entry)
    /\ UNCHANGED <<now, config, botvars>>

\* One iteration of `for user_id in settings.allowed_user_ids` (alerts.py:139-147
\* and 163-171): the awaited send_message returns (ok) or raises (not ok); the
\* exception is caught and logged.  After the last recipient the grouped path
\* runs alerts.py:173-177 and 125-127.
SendStep(ok) ==
    /\ pc = "send"
    /\ sent' = Append(sent, [to |-> recipients[cur.idx], ok |-> ok])
    /\ IF cur.idx < Len(recipients)
       THEN /\ cur' = [cur EXCEPT !.idx = @ + 1]
            /\ pc' = "send"
            /\ UNCHANGED <<records, groups, cooldowns>>
       ELSE /\ cur' = cur
            /\ pc' = "done"
            /\ IF cur.mode = "grouped"
               THEN FlushEnd(records, groups, cur.gkey)
               ELSE IF cur.mode = "flush"
               THEN /\ cooldowns' = stamp_all(cooldowns, records, cur.members, now)
                    /\ records' = mark_sent(records, cur.members)
                    /\ UNCHANGED groups
               ELSE UNCHANGED <<records, groups, cooldowns>>
    /\ UNCHANGED <<now, config, alerts, nextId, dispatchedAt, ingested, botvars>>

\* process_alert returns, or its exception reaches the caller
Return ==
    /\ pc = "done"
    /\ pc' = "idle"
    /\ cur' = IdleCur
    /\ sent' = <<>>
    /\ UNCHANGED <<now, config, records, alerts, groups, cooldowns, nextId,
                   dispatchedAt, ingested, botvars>>

\* Time passes, between calls and while a send is awaited (nothing runs between the
\* last statement of a call and its return).
Tick ==
    /\ pc # "done"
    /\ now < MaxTime
    /\ now' = now + 1
    /\ UNCHANGED <<config, records, alerts, groups, cooldowns, nextId, pc, cur, sent,
                   dispatchedAt, ingested, botvars>>

\* AlertManager.set_min_level, alerts.py:244-247.  The setters are called between
\* calls of the pipeline; a call in flight reads neither field after should_notify.
set_min_level(level) ==
    /\ pc = "idle"
    /\ min_level' = level
    /\ UNCHANGED <<now, recipients, cooldown_seconds, grouping_enabled, records, alerts,
                   groups, cooldowns, nextId, pc, cur, sent, dispatchedAt, ingested,
                   botvars>>

\* AlertManager.set_cooldown, alerts.py:249-252
set_cooldown(seconds) ==
    /\ pc = "idle"
    /\ cooldown_seconds' = seconds
    /\ UNCHANGED <<now, recipients, min_level, grouping_enabled, records, alerts,
                   groups, cooldowns, nextId, pc, cur, sent, dispatchedAt, ingested,
                   botvars>>

\* process_alert is a coroutine: tasks that run it share the event loop, and the
\* loop may run another task whenever the running one awaits send_message
\* (alerts.py:141, 165).  The call that awaits is set aside with its locals.
Suspend ==
    /\ pc = "send"
    /\ waiting' = waiting \cup {[pc |-> pc, cur |-> cur, sent |-> sent]}
    /\ pc' = "idle"
    /\ cur' = IdleCur
    /\ sent' = <<>>
    /\ UNCHANGED <<now, config, records, alerts, groups, cooldowns, nextId,
                   dispatchedAt, ingested, botstate>>

\* the loop goes back to a call that was set aside
Resume(call) ==
    /\ pc = "idle"
    /\ call \in waiting
    /\ waiting' = waiting \ {call}
    /\ pc' = call.pc
    /\ cur' = call.cur
    /\ sent' = call.sent
    /\ UNCHANGED <<now, config, records, alerts, groups, cooldowns, nextId,
                   dispatchedAt, ingested, botstate>>

\* self.grouping_enabled is a plain attribute (alerts.py:60) that process_alert reads
\* at every call (alerts.py:93); the owner of the manager assigns it between calls.
assign_grouping_enabled(enabled) ==
    /\ pc = "idle"
    /\ grouping_enabled' = enabled
    /\ UNCHANGED <<now, recipients, min_level, cooldown_seconds, records, alerts,
                   groups, cooldowns, nextId, pc, cur, sent, dispatchedAt, ingested,
                   botvars>>

\* ================================================= Part 2: src/bot.py
\* socket.gethostname()[:20], bot.py:151
Hostname == "host"

\* ServerMetrics as get_servers returns it (bot.py:146-200): a metric is None (the
\* probe gave nothing) or a float, here in tenths of a percent
Metrics(cpu, mem, disk) == [cpu_percent |-> cpu, mem_percent |-> mem, disk_percent |-> disk]

MetricSets == {Metrics(<<>>, <<>>, <<>>),
               Metrics(<<850>>, <<>>, <<>>),
               Metrics(<<972>>, <<>>, <<>>),
               Metrics(<<972>>, <<972>>, <<>>),
               Metrics(<<>>, <<972>>, <<850>>),
               Metrics(<<>>, <<>>, <<972>>)}

\* names of the containers docker reports as exited, bot.py:268-269
StoppedLists == {<<>>, <<"web">>}

\* delete_message returns, raises BadRequest, or raises another TelegramError
DeleteOutcomes == {"ok", "BadRequest", "error"}

Users == 1..MaxRecipients

\* f"{value:.0f}": the nearest integer (no input lies half way between two)
Format0f(tenths) == ToString((tenths + 5) \div 10)

\* one `if server.x and server.x >= WARNING` block of get_alerts, bot.py:255-265
metric_alert(label, value, warning, critical) ==
    IF value # <<>> /\ value[1] # 0 /\ value[1] >= warning * 10
    THEN << [level |-> IF value[1] >= critical * 10 THEN "!" ELSE "i",
             message |-> <<label, " ", Format0f(value[1]), "% on ", Hostname>>] >>
    ELSE <<>>

\* RealDataProvider.get_alerts, bot.py:249-274 (the returned list)
get_alerts(metrics, stopped) ==
    metric_alert("CPU", metrics.cpu_percent, CPU_WARNING, CPU_CRITICAL)
    \o metric_alert("Memory", metrics.mem_percent, MEM_WARNING, MEM_CRITICAL)
    \o metric_alert("Disk", metrics.disk_percent, DISK_WARNING, DISK_CRITICAL)
    \o [i \in 1..Len(stopped) |->
          [level |-> "i", message |-> <<"Container ", stopped[i], " stopped">>]]

\* critical = [a for a in alerts if a.level == "!"], bot.py:279
critical_of(found) == SelectSeq(found, LAMBDA a : a.level = "!")

check_critical_alerts_every_tick(found) ==
    LET critical == critical_of(found)
    IN IF critical # <<>> THEN <<critical[1]>> ELSE <<>>

\* the value check_critical_alerts returns, bot.py:281-290: None or the new alert
check_critical_alerts(found) ==
    LET critical == critical_of(found)
    IN IF /\ critical # <<>>
          /\ \/ monitor_last_critical = <<>>
             \/ monitor_last_critical[1].message # critical[1].message
       THEN <<critical[1]>>
       ELSE <<>>

RECURSIVE Digits(_)
Digits(n) == IF n < 10 THEN <<ToString(n)>> ELSE Digits(n \div 10) \o <<ToString(n % 10)>>

\* f"ALR-{self.alert_counter:04d}", bot.py:58
FormatId(n) ==
    LET d == Digits(n)
    IN <<"A", "L", "R", "-">> \o Rep("0", IF Len(d) < 4 THEN 4 - Len(d) ELSE 0) \o d

\* deque(maxlen=max_history).append, bot.py:49 and 64
deque_append(q, x) == IF Len(q) >= maxlen THEN Append(Tail(q), x) ELSE Append(q, x)

IdleJob == [record |-> 0, idx |-> 0, mid |-> <<>>]

\* no update_dashboard run is in flight
IdleUpdate == [items |-> <<>>, idx |-> 0]

\* no store operation has been called, or the last one has returned to its caller
NoRet == [op |-> "none", arg |-> <<>>, value |-> <<>>]

\* Top of one iteration of `for user_id in settings.allowed_user_ids`, bot.py:987-
\* 1011: the lines and the keyboard are built, then the job awaits delete_message
\* when the user has an active message (whose id is read before the await), and
\* send_message otherwise.  Past the last user the loop ends.
enter_iteration(record, i, active) ==
    IF i > Len(recipients)
    THEN /\ jpc' = "done"
         /\ job' = [record |-> record, idx |-> i, mid |-> <<>>]
    ELSE IF recipients[i] \in DOMAIN active
         THEN /\ jpc' = "delete"
              /\ job' = [record |-> record, idx |-> i, mid |-> <<active[recipients[i]]>>]
         ELSE /\ jpc' = "send"
              /\ job' = [record |-> record, idx |-> i, mid |-> <<>>]

add_alert_stale_counter(level, message, source) ==
    LET n == alert_counter + 1
    IN /\ alert_counter' = n
       /\ hrecords' = Put(hrecords, n, [id |-> FormatId(alert_counter), level |-> level,
                                        message |-> message, source |-> source,
                                        timestamp |-> now, acknowledged |-> FALSE])
       /\ history' = deque_append(history, n)
       /\ last_critical' = IF level = "!" THEN <<n>> ELSE last_critical

add_alert_any_level(level, message, source) ==
    LET n == alert_counter + 1
    IN /\ alert_counter' = n
       /\ hrecords' = Put(hrecords, n, [id |-> FormatId(n), level |-> level,
                                        message |-> message, source |-> source,
                                        timestamp |-> now, acknowledged |-> FALSE])
       /\ history' = deque_append(history, n)
       /\ last_critical' = <<n>>

\* AlertManager.add_alert, bot.py:54-69
add_alert(level, message, source) ==
    LET n == alert_counter + 1
    IN /\ alert_counter' = n
       /\ hrecords' = Put(hrecords, n, [id |-> FormatId(n), level |-> level,
                                        message |-> message, source |-> source,
                                        timestamp |-> now, acknowledged |-> FALSE])
       /\ history' = deque_append(history, n)
       /\ last_critical' = IF level = "!" THEN <<n>> ELSE last_critical

\* critical_alert_job up to its first await, bot.py:976-1011: the monitor is read
\* (check_critical_alerts, bot.py:276-290, which calls get_alerts); a new critical
\* alert is added to the history and the loop over the users is entered.
job_start(metrics, stopped) ==
    /\ jpc = "idle"
    /\ LET found == get_alerts(metrics, stopped)
           critical == check_critical_alerts(found)
       IN /\ monitor_last_alerts' = found
          /\ monitor_last_critical' =
                IF critical_of(found) = <<>> THEN <<>>
                ELSE IF critical # <<>> THEN critical ELSE monitor_last_critical
          /\ IF critical # <<>>
             THEN /\ add_alert(critical[1].level, critical[1].message, "monitor")
                  /\ enter_iteration(alert_counter + 1, 1, active_alert_messages)
             ELSE UNCHANGED <<history, hrecords, alert_counter, last_critical, jpc, job>>
    /\ jlog' = <<>>
    /\ UNCHANGED <<active_alert_messages, chat, message_of,
                   next_message_id, storevars>>

\* a run of the job while the clock stands still
JobStart(metrics, stopped) ==
    /\ job_start(metrics, stopped)
    /\ UNCHANGED amvars

\* The runs of the job as the job queue starts them, every 10 seconds (bot.py:
\* 1073-1077).  A run reads the clock once, when add_alert stamps the record (bot.py:
\* 62); as the run starts the clock moves on to the instant of the next run.
JobRun(metrics, stopped) ==
    /\ job_start(metrics, stopped)
    /\ now' = now + JobInterval
    /\ UNCHANGED <<config, records, alerts, groups, cooldowns, nextId, pc, cur, sent,
                   dispatchedAt, ingested>>

\* The awaited delete_message of one user ends, bot.py:1007-1013.  BadRequest is
\* passed over and the send follows; any other exception leaves the inner try and is
\* caught by `except Exception` at bot.py:1024, which ends this user's iteration.
\* When the call raises, Telegram may or may not have removed the message.
JobDelete(outcome, removed) ==
    /\ jpc = "delete"
    /\ LET user_id == recipients[job.idx]
           there == job.mid[1] \in chat[user_id]
       IN /\ outcome = "ok" => there /\ removed
          /\ outcome = "BadRequest" => ~removed
          /\ removed => there
          /\ chat' = IF removed THEN [chat EXCEPT ![user_id] = @ \ {job.mid[1]}] ELSE chat
          /\ jlog' = Append(jlog, [user |-> user_id, op |-> "delete", res |-> outcome])
          /\ IF outcome = "error"
             THEN enter_iteration(job.record, job.idx + 1, active_alert_messages)
             ELSE /\ jpc' = "send"
                  /\ job' = job
    /\ UNCHANGED <<amvars, history, hrecords, alert_counter, last_critical,
                   active_alert_messages, monitor_last_alerts, monitor_last_critical,
                   next_message_id, message_of, storevars>>

\* The awaited send_message of one user ends, bot.py:1016-1025: the id of the new
\* message is stored, or the exception is caught and logged.
JobSend(ok) ==
    /\ jpc = "send"
    /\ LET user_id == recipients[job.idx]
           active == IF ok THEN Put(active_alert_messages, user_id, next_message_id)
                     ELSE active_alert_messages
       IN /\ chat' = IF ok THEN [chat EXCEPT ![user_id] = @ \cup {next_message_id}]
                     ELSE chat
          /\ next_message_id' = IF ok THEN next_message_id + 1 ELSE next_message_id
          /\ message_of' = IF ok THEN Put(message_of, next_message_id,
                                          [record |-> job.record, text |-> "alert"])
                           ELSE message_of
          /\ active_alert_messages' = active
          /\ jlog' = Append(jlog, [user |-> user_id, op |-> "send",
                                   res |-> IF ok THEN "ok" ELSE "error"])
          /\ enter_iteration(job.record, job.idx + 1, active)
    /\ UNCHANGED <<amvars, history, hrecords, alert_counter, last_critical,
                   monitor_last_alerts, monitor_last_critical, storevars>>

\* critical_alert_job returns
JobReturn ==
    /\ jpc = "done"
    /\ jpc' = "idle"
    /\ job' = IdleJob
    /\ jlog' = <<>>
    /\ UNCHANGED <<amvars, history, hrecords, alert_counter, last_critical,
                   active_alert_messages, monitor_last_alerts, monitor_last_critical,
                   chat, message_of,
                   next_message_id, storevars>>

\* ============================================ the two stores, called directly
\* Every operation below is synchronous.  A call records what it returned in ret,
\* and StoreReturn hands control back to the caller before the next call.

\* s[i:] of a Python list, for any integer i
slice_from(s, i) ==
    LET start == IF i < 0
                 THEN (IF Len(s) + i < 0 THEN 0 ELSE Len(s) + i)
                 ELSE Min(i, Len(s))
    IN SubSeq(s, start + 1, Len(s))

\* AlertManager.get_history, bot.py:71-73: list(self.history)[-limit:]
get_history(limit) == slice_from(history, 0 - limit)

\* AlertManager.get_active_critical, bot.py:75-79
get_active_critical ==
    IF last_critical # <<>> /\ ~hrecords[last_critical[1]].acknowledged
    THEN last_critical
    ELSE <<>>

\* position in the history of the first record with this id, 0 when there is none
\* (the loop of bot.py:83-84)
history_index(alert_id) ==
    LET hits == {i \in DOMAIN history : hrecords[history[i]].id = alert_id}
    IN IF hits = {} THEN 0 ELSE CHOOSE i \in hits : \A j \in hits : i <= j

history_acknowledge_all_too(alert_id) ==
    [n \in DOMAIN hrecords |->
        IF n \in Range(history) THEN [hrecords[n] EXCEPT !.acknowledged = TRUE]
        ELSE hrecords[n]]

\* AlertManager.acknowledge, bot.py:81-87: the heap it leaves
history_acknowledge(alert_id) ==
    IF history_index(alert_id) = 0 THEN hrecords
    ELSE [hrecords EXCEPT ![history[history_index(alert_id)]].acknowledged = TRUE]

history_acknowledge_none == hrecords

\* AlertManager.acknowledge_all, bot.py:89-92: the heap it leaves
history_acknowledge_all ==
    [n \in DOMAIN hrecords |->
        IF n \in Range(history) THEN [hrecords[n] EXCEPT !.acknowledged = TRUE]
        ELSE hrecords[n]]

\* AlertManager.get_active_alerts, alerts.py:232-234
get_active_alerts == SelectSeq(alerts, LAMBDA i : ~records[i].acknowledged)

\* ---- bot.py AlertManager
AddAlert(level, message, source) ==
    /\ ret.op = "none"
    /\ add_alert(level, message, source)
    /\ ret' = [op |-> "add_alert", arg |-> <<level>>, value |-> <<alert_counter + 1>>]
    /\ UNCHANGED <<amvars, active_alert_messages, monitor_last_alerts,
                   monitor_last_critical, chat, message_of,
                   next_message_id, jpc, job, jlog,
                   maxlen, dashvars, acked_all, waiting>>

bot_acknowledge(alert_id) ==
    /\ ret.op = "none"
    /\ hrecords' = history_acknowledge(alert_id)
    /\ ret' = [op |-> "bot.acknowledge", arg |-> <<alert_id>>,
               value |-> <<history_index(alert_id) # 0>>]
    /\ UNCHANGED <<amvars, history, alert_counter, last_critical, active_alert_messages,
                   monitor_last_alerts, monitor_last_critical, chat, message_of,
                   next_message_id,
                   jpc, job, jlog, maxlen, dashvars, acked_all, waiting>>

bot_acknowledge_all ==
    /\ ret.op = "none"
    /\ hrecords' = history_acknowledge_all
    /\ last_critical' = <<>>
    /\ acked_all' = TRUE
    /\ ret' = [op |-> "bot.acknowledge_all", arg |-> <<>>, value |-> <<>>]
    /\ UNCHANGED <<amvars, history, alert_counter, active_alert_messages,
                   monitor_last_alerts, monitor_last_critical, chat, message_of,
                   next_message_id,
                   jpc, job, jlog, maxlen, dashvars, waiting>>

GetHistory(limit) ==
    /\ ret.op = "none"
    /\ ret' = [op |-> "get_history", arg |-> <<limit>>, value |-> get_history(limit)]
    /\ UNCHANGED <<amvars, history, hrecords, alert_counter, last_critical,
                   active_alert_messages, monitor_last_alerts, monitor_last_critical,
                   chat, message_of,
                   next_message_id, jpc, job, jlog, maxlen, dashvars, acked_all, waiting>>

GetActiveCritical ==
    /\ ret.op = "none"
    /\ ret' = [op |-> "get_active_critical", arg |-> <<>>, value |-> get_active_critical]
    /\ UNCHANGED <<amvars, history, hrecords, alert_counter, last_critical,
                   active_alert_messages, monitor_last_alerts, monitor_last_critical,
                   chat, message_of,
                   next_message_id, jpc, job, jlog, maxlen, dashvars, acked_all, waiting>>

StoreReturn ==
    /\ ret.op # "none"
    /\ ret' = NoRet
    /\ UNCHANGED <<amvars, history, hrecords, alert_counter, last_critical,
                   active_alert_messages, monitor_last_alerts, monitor_last_critical,
                   chat, message_of,
                   next_message_id, jpc, job, jlog, maxlen, dashvars, acked_all, waiting>>

\* ---- alerts.py AlertManager
\* AlertManager.acknowledge, alerts.py:220-225
acknowledge(alert_id) ==
    /\ pc = "idle"
    /\ ret.op = "none"
    /\ records' = IF alert_id \in Range(alerts)
                  THEN [records EXCEPT ![alert_id].acknowledged = TRUE]
                  ELSE records
    /\ ret' = [op |-> "acknowledge", arg |-> <<alert_id>>,
               value |-> <<alert_id \in Range(alerts)>>]
    /\ UNCHANGED <<now, config, alerts, groups, cooldowns, nextId, pc, cur, sent,
                   dispatchedAt, ingested>>
    /\ UNCHANGED <<history, hrecords, alert_counter, last_critical,
                   active_alert_messages, monitor_last_alerts, monitor_last_critical,
                   chat, message_of,
                   next_message_id, jpc, job, jlog, maxlen, dashvars, acked_all, waiting>>

\* AlertManager.acknowledge_all, alerts.py:227-230
acknowledge_all ==
    /\ pc = "idle"
    /\ ret.op = "none"
    /\ records' = [i \in DOMAIN records |->
                      IF i \in Range(alerts)
                      THEN [records[i] EXCEPT !.acknowledged = TRUE] ELSE records[i]]
    /\ ret' = [op |-> "acknowledge_all", arg |-> <<>>, value |-> <<>>]
    /\ UNCHANGED <<now, config, alerts, groups, cooldowns, nextId, pc, cur, sent,
                   dispatchedAt, ingested>>
    /\ UNCHANGED <<history, hrecords, alert_counter, last_critical,
                   active_alert_messages, monitor_last_alerts, monitor_last_critical,
                   chat, message_of,
                   next_message_id, jpc, job, jlog, maxlen, dashvars, acked_all, waiting>>

GetActiveAlerts ==
    /\ pc = "idle"
    /\ ret.op = "none"
    /\ ret' = [op |-> "get_active_alerts", arg |-> <<>>, value |-> get_active_alerts]
    /\ UNCHANGED <<amvars, history, hrecords, alert_counter, last_critical,
                   active_alert_messages, monitor_last_alerts, monitor_last_critical,
                   chat, message_of,
                   next_message_id, jpc, job, jlog, maxlen, dashvars, acked_all, waiting>>

\* {k: v for k, v in self.alerts.items() if v.timestamp > cutoff}, alerts.py:239-242
alerts_newer_than(cutoff) ==
    SelectSeq(alerts, LAMBDA id : records[id].timestamp > cutoff)

\* AlertManager.clear_old_alerts, alerts.py:236-242.  Synchronous; the records
\* themselves are not touched, only the dict is rebuilt.
clear_old_alerts(max_age_hours) ==
    /\ ret.op = "none"
    /\ alerts' = alerts_newer_than(now - max_age_hours * SecondsPerHour)
    /\ ret' = [op |-> "clear_old_alerts", arg |-> <<max_age_hours>>, value |-> <<>>]
    /\ UNCHANGED <<now, config, records, groups, cooldowns, nextId, pc, cur, sent,
                   dispatchedAt, ingested>>
    /\ UNCHANGED <<history, hrecords, alert_counter, last_critical,
                   active_alert_messages, monitor_last_alerts, monitor_last_critical,
                   chat, message_of,
                   next_message_id, jpc, job, jlog, maxlen, dashvars, acked_all, waiting>>

\* AlertManager.clear_active_message, bot.py:95-98
clear_active_message(chat_id) ==
    [u \in DOMAIN active_alert_messages \ {chat_id} |-> active_alert_messages[u]]

\* A user presses Acknowledge under a critical-alert message of their chat:
\* callback_handler routes "alert:ack:<id>" to handle_alerts_callback, bot.py:678-698,
\* 878-889.  The button carries the id of the record the message was built from
\* (bot.py:1002), and the message keeps it until edit_text replaces text and
\* keyboard.  acknowledge and clear_active_message are synchronous; the awaited
\* edit_text succeeds or raises, and what it raises is logged by callback_handler
\* (bot.py:708-709).
handle_alerts_callback_ack(user_id, message_id, edited) ==
    /\ message_id \in chat[user_id]
    /\ message_of[message_id].text = "alert"
    /\ LET alert_id == hrecords[message_of[message_id].record].id
           found == history_index(alert_id) # 0
       IN /\ edited => found
          /\ hrecords' = history_acknowledge(alert_id)
          /\ active_alert_messages' =
                IF found THEN clear_active_message(user_id) ELSE active_alert_messages
          /\ message_of' =
                IF edited THEN [message_of EXCEPT ![message_id].text = "acknowledged"]
                ELSE message_of
    /\ UNCHANGED <<amvars, history, alert_counter, last_critical, monitor_last_alerts,
                   monitor_last_critical, chat, next_message_id, jpc, job, jlog,
                   storevars>>

\* A user presses Acknowledge All in the alerts or history menu ("alerts:ack_all",
\* bot.py:497, 607): handle_alerts_callback calls acknowledge_all, bot.py:873-875
handle_alerts_callback_ack_all ==
    /\ hrecords' = history_acknowledge_all
    /\ last_critical' = <<>>
    /\ acked_all' = TRUE
    /\ UNCHANGED <<amvars, history, alert_counter, active_alert_messages,
                   monitor_last_alerts, monitor_last_critical, chat, message_of,
                   next_message_id, jpc, job, jlog, maxlen, dashvars, ret, waiting>>

\* ================================================ the dashboards of bot.py
\* A chat is the private chat of a user, whose id is the id of the user, or a group
\* the bot was added to: there every user reads the bot's messages and can press
\* their buttons.  update.effective_chat.id, bot.py:411; query.message.chat_id,
\* bot.py:720.
GroupChat == 0

Chats == Users \cup {GroupChat}

Members(chat_id) == IF chat_id = GroupChat THEN Users ELSE {chat_id}

\* the test of the decorator `authorized`, bot.py:117-125: the handler runs unless
\* the list is non-empty and the user is not in it
authorized(user_id) == ~(recipients # <<>> /\ user_id \notin Range(recipients))

\* dashboard_state.active_messages is a dict, iterated in insertion order
dict_has(d, k) == \E i \in DOMAIN d : d[i].chat_id = k

\* d[k] = v
dict_set(d, k, v) ==
    IF dict_has(d, k)
    THEN [i \in DOMAIN d |-> IF d[i].chat_id = k THEN [chat_id |-> k, message |-> v]
                             ELSE d[i]]
    ELSE Append(d, [chat_id |-> k, message |-> v])

\* del d[k], for a key that is there
dict_del(d, k) == SelectSeq(d, LAMBDA item : item.chat_id # k)

\* the buttons under a dashboard (bot.py:338-353), under the settings of /config
\* (bot.py:531-538) and under the list of /alerts (bot.py:495-501) that change state
DashboardKeyboard == {"dashboard:refresh", "dashboard:close"}

ConfigKeyboard == {"config:refresh"}

AlertsKeyboard == {"alerts:ack_all"}

\* the intervals the buttons of /config carry, bot.py:533-535
RefreshChoices == {30, 60, 120}

\* what one server reads when a dashboard is rendered
DashReadings == {Metrics(<<>>, <<>>, <<>>), Metrics(<<972>>, <<>>, <<>>)}

\* a message with these buttons is now in the chat
show(chat_id, message, buttons) ==
    keyboards \cup {[chat_id |-> chat_id, message |-> message, data |-> b] : b \in buttons}

\* the user sees a message of the chat that carries the button
can_press(user_id, chat_id, message, data) ==
    /\ user_id \in Members(chat_id)
    /\ [chat_id |-> chat_id, message |-> message, data |-> data] \in keyboards

\* /status, bot.py:408-437: behind `authorized`; the alerts are read (get_alerts
\* stores them, bot.py:271), the dashboard is sent as a reply and registered for the
\* chat.  When the reply raises nothing is registered.
cmd_status(user_id, chat_id, metrics, ok) ==
    /\ user_id \in Members(chat_id)
    /\ IF ~authorized(user_id)
       THEN UNCHANGED <<monitor_last_alerts, active_messages, next_message_id, keyboards>>
       ELSE /\ monitor_last_alerts' = get_alerts(metrics, <<>>)
            /\ IF ok
               THEN /\ active_messages' = dict_set(active_messages, chat_id, next_message_id)
                    /\ keyboards' = show(chat_id, next_message_id, DashboardKeyboard)
                    /\ next_message_id' = next_message_id + 1
               ELSE UNCHANGED <<active_messages, next_message_id, keyboards>>
    /\ UNCHANGED <<amvars, history, hrecords, alert_counter, last_critical,
                   active_alert_messages, monitor_last_critical, chat, message_of,
                   jpc, job, jlog, maxlen, ret, acked_all, waiting,
                   refresh_interval, upc, upd, ulog>>

\* /config, bot.py:510-544: behind `authorized`; replies with the interval buttons
cmd_config(user_id, chat_id) ==
    /\ user_id \in Members(chat_id)
    /\ IF ~authorized(user_id)
       THEN UNCHANGED <<next_message_id, keyboards>>
       ELSE /\ keyboards' = show(chat_id, next_message_id, ConfigKeyboard)
            /\ next_message_id' = next_message_id + 1
    /\ UNCHANGED <<amvars, history, hrecords, alert_counter, last_critical,
                   active_alert_messages, monitor_last_alerts, monitor_last_critical,
                   chat, message_of, jpc, job, jlog, maxlen, ret, acked_all, waiting,
                   active_messages, refresh_interval, upc, upd, ulog>>

\* /alerts, bot.py:472-507: behind `authorized`; reads the alerts and, when there is
\* one, replies with the list and the Acknowledge All button
cmd_alerts(user_id, chat_id, metrics) ==
    /\ user_id \in Members(chat_id)
    /\ IF ~authorized(user_id)
       THEN UNCHANGED <<monitor_last_alerts, next_message_id, keyboards>>
       ELSE LET found == get_alerts(metrics, <<>>) IN
            /\ monitor_last_alerts' = found
            /\ IF found = <<>>
               THEN UNCHANGED <<next_message_id, keyboards>>
               ELSE /\ keyboards' = show(chat_id, next_message_id, AlertsKeyboard)
                    /\ next_message_id' = next_message_id + 1
    /\ UNCHANGED <<amvars, history, hrecords, alert_counter, last_critical,
                   active_alert_messages, monitor_last_critical, chat, message_of,
                   jpc, job, jlog, maxlen, ret, acked_all, waiting,
                   active_messages, refresh_interval, upc, upd, ulog>>

\* callback_handler (bot.py:678-709, not behind `authorized`) routes "config:
\* refresh:<n>" to handle_config_callback, bot.py:861-866
handle_config_callback(user_id, chat_id, message, new_interval) ==
    /\ can_press(user_id, chat_id, message, "config:refresh")
    /\ refresh_interval' = new_interval
    /\ UNCHANGED <<amvars, history, hrecords, alert_counter, last_critical,
                   active_alert_messages, monitor_last_alerts, monitor_last_critical,
                   chat, message_of, next_message_id, jpc, job, jlog, maxlen, ret,
                   acked_all, waiting, active_messages, keyboards, upc, upd, ulog>>

\* "dashboard:close", handle_dashboard_callback, bot.py:719-724: the chat is taken
\* out of the active dashboards, then the message is edited into a plain text; when
\* the edit succeeds the message has lost its buttons
handle_dashboard_callback_close(user_id, chat_id, message, edited) ==
    /\ can_press(user_id, chat_id, message, "dashboard:close")
    /\ active_messages' = IF dict_has(active_messages, chat_id)
                          THEN dict_del(active_messages, chat_id)
                          ELSE active_messages
    /\ keyboards' = IF edited
                    THEN {b \in keyboards : ~(b.chat_id = chat_id /\ b.message = message)}
                    ELSE keyboards
    /\ UNCHANGED <<amvars, history, hrecords, alert_counter, last_critical,
                   active_alert_messages, monitor_last_alerts, monitor_last_critical,
                   chat, message_of, next_message_id, jpc, job, jlog, maxlen, ret,
                   acked_all, waiting, refresh_interval, upc, upd, ulog>>

\* "alerts:ack_all" pressed under the list of /alerts: callback_handler routes it to
\* handle_alerts_callback, bot.py:873-875
callback_ack_all(user_id, chat_id, message) ==
    /\ can_press(user_id, chat_id, message, "alerts:ack_all")
    /\ handle_alerts_callback_ack_all

\* DashboardState.update_dashboard up to its first await, bot.py:306-325: nothing
\* when no dashboard is active; otherwise the alerts are read, the content is
\* rendered and the loop over a copy of the items starts
update_dashboard(metrics) ==
    /\ upc = "idle"
    /\ IF active_messages = <<>>
       THEN UNCHANGED <<monitor_last_alerts, upc, upd, ulog>>
       ELSE /\ monitor_last_alerts' = get_alerts(metrics, <<>>)
            /\ upc' = "edit"
            /\ upd' = [items |-> active_messages, idx |-> 1]
            /\ ulog' = <<>>
    /\ UNCHANGED <<amvars, history, hrecords, alert_counter, last_critical,
                   active_alert_messages, monitor_last_critical, chat, message_of,
                   next_message_id, jpc, job, jlog, maxlen, ret, acked_all, waiting,
                   active_messages, refresh_interval, keyboards>>

\* dashboard_refresh_job, bot.py:971-973
dashboard_refresh_job(metrics) == update_dashboard(metrics)

\* "dashboard:refresh", handle_dashboard_callback, bot.py:716-718
handle_dashboard_callback_refresh(user_id, chat_id, message, metrics) ==
    /\ can_press(user_id, chat_id, message, "dashboard:refresh")
    /\ update_dashboard(metrics)

\* the loop of update_dashboard goes on to the next item, or is over
next_item ==
    IF upd.idx < Len(upd.items)
    THEN /\ upc' = "edit"
         /\ upd' = [upd EXCEPT !.idx = @ + 1]
    ELSE /\ upc' = "done"
         /\ upd' = upd

\* The awaited edit_text of one item ends, bot.py:324-334: it returns, or raises
\* with "Message is not modified", or raises something else.  The last case runs
\* `del self.active_messages[chat_id]` inside the except clause: when the chat is no
\* longer a key the del raises KeyError, which leaves the for loop and is caught by
\* the outer `except Exception` (bot.py:336-337), and the run is over.
UpdateEdit(outcome) ==
    /\ upc = "edit"
    /\ LET item == upd.items[upd.idx] IN
       /\ ulog' = Append(ulog, [chat_id |-> item.chat_id, res |-> outcome])
       /\ keyboards' = IF outcome = "ok"
                       THEN show(item.chat_id, item.message, DashboardKeyboard)
                       ELSE keyboards
       /\ IF outcome = "error"
          THEN IF dict_has(active_messages, item.chat_id)
               THEN /\ active_messages' = dict_del(active_messages, item.chat_id)
                    /\ next_item
               ELSE /\ upc' = "done"
                    /\ upd' = upd
                    /\ UNCHANGED active_messages
          ELSE /\ next_item
               /\ UNCHANGED active_messages
    /\ UNCHANGED <<amvars, history, hrecords, alert_counter, last_critical,
                   active_alert_messages, monitor_last_alerts, monitor_last_critical,
                   chat, message_of, next_message_id, jpc, job, jlog, maxlen, ret,
                   acked_all, waiting, refresh_interval>>

\* update_dashboard returns
UpdateReturn ==
    /\ upc = "done"
    /\ upc' = "idle"
    /\ upd' = IdleUpdate
    /\ ulog' = <<>>
    /\ UNCHANGED <<amvars, history, hrecords, alert_counter, last_critical,
                   active_alert_messages, monitor_last_alerts, monitor_last_critical,
                   chat, message_of, next_message_id, jpc, job, jlog, maxlen, ret,
                   acked_all, waiting, active_messages, refresh_interval, keyboards>>

EditOutcomes == {"ok", "not_modified", "error"}

\* bot.py:48-52 (alert_manager), 142-144 (monitor), 301-304 (dashboard_state); no job
\* runs, the chats are empty;
\* the bound of the history is the argument of the constructor
InitBotManager ==
    /\ history = <<>>
    /\ hrecords = <<>>
    /\ alert_counter = 0
    /\ last_critical = <<>>
    /\ active_alert_messages = <<>>
    /\ monitor_last_alerts = <<>>
    /\ monitor_last_critical = <<>>
    /\ chat = [u \in Users |-> {}]
    /\ message_of = <<>>
    /\ next_message_id = 1
    /\ jpc = "idle"
    /\ job = IdleJob
    /\ jlog = <<>>
    /\ ret = NoRet
    /\ acked_all = FALSE
    /\ active_messages = <<>>
    /\ refresh_interval = dashboard_refresh_interval
    /\ keyboards = {}
    /\ upc = "idle"
    /\ upd = IdleUpdate
    /\ ulog = <<>>

\* AlertManager.__init__, alerts.py:46-60; the three settings and the recipient list
\* are read from the environment (config.py:30, 55-57)
InitManager ==
    /\ waiting = {}
    /\ now = 0
    /\ records = <<>>
    /\ alerts = <<>>
    /\ groups = <<>>
    /\ cooldowns = <<>>
    /\ nextId = 1
    /\ pc = "idle"
    /\ cur = IdleCur
    /\ sent = <<>>
    /\ dispatchedAt = <<>>
    /\ ingested = {}

Init ==
    /\ InitManager
    /\ InitBotManager
    /\ maxlen = max_history
    /\ recipients \in RecipientLists
    /\ min_level \in Levels
    /\ cooldown_seconds \in CooldownChoices
    /\ grouping_enabled \in BOOLEAN

Next ==
    \/ /\ nextId <= MaxAlerts
       /\ \E level \in Levels, source \in Sources, message \in Messages,
             timestamp \in Timestamps :
              process_alert(level, source, message, timestamp)
    \/ \E ok \in BOOLEAN : SendStep(ok)
    \/ Return
    \/ Tick
    \/ \E level \in Levels : set_min_level(level)
    \/ \E seconds \in CooldownChoices : set_cooldown(seconds)

Spec == Init /\ [][Next]_vars

\* The bot process: the pipeline of Part 1 is not used by bot.py, so it stays as
\* constructed, with the defaults of config.py:55-57.  The job reads the clock only
\* to stamp the record it adds, so the clock is left where it is.
InitBot ==
    /\ InitManager
    /\ InitBotManager
    /\ maxlen = max_history
    /\ recipients \in RecipientLists
    /\ min_level = "warning"
    /\ cooldown_seconds = alert_cooldown
    /\ grouping_enabled = TRUE

NextBot ==
    \/ /\ alert_counter < MaxAlerts
       /\ \E metrics \in MetricSets, stopped \in StoppedLists : JobStart(metrics, stopped)
    \/ \E outcome \in DeleteOutcomes, removed \in BOOLEAN : JobDelete(outcome, removed)
    \/ \E ok \in BOOLEAN : JobSend(ok)
    \/ JobReturn

SpecBot == InitBot /\ [][NextBot]_vars

\* The job on the clock of the job queue: runs at 0, 10, 20, ... seconds
NextTimed ==
    \/ /\ alert_counter < MaxAlerts
       /\ now <= MaxTime * JobInterval
       /\ \E metrics \in MetricSets, stopped \in StoppedLists : JobRun(metrics, stopped)
    \/ \E outcome \in DeleteOutcomes, removed \in BOOLEAN : JobDelete(outcome, removed)
    \/ \E ok \in BOOLEAN : JobSend(ok)
    \/ JobReturn

SpecTimed == InitBot /\ [][NextTimed]_vars

\* The bot process with its users: the job as in SpecBot, and the users pressing
\* the buttons that acknowledge.  The callbacks run on the event loop of the job, so
\* one may run while the job waits for Telegram.
NextChat ==
    \/ /\ alert_counter < MaxAlerts
       /\ \E metrics \in MetricSets, stopped \in StoppedLists : JobStart(metrics, stopped)
    \/ \E outcome \in DeleteOutcomes, removed \in BOOLEAN : JobDelete(outcome, removed)
    \/ \E ok \in BOOLEAN : JobSend(ok)
    \/ JobReturn
    \/ \E user_id \in Users, message_id \in 1..(next_message_id - 1), edited \in BOOLEAN :
          handle_alerts_callback_ack(user_id, message_id, edited)
    \/ handle_alerts_callback_ack_all

SpecChat == InitBot /\ [][NextChat]_vars

\* The two stores called directly, as classes.  The history of bot.py: the
\* constructor takes the bound, add_alert takes any level (the job passes "!"),
\* acknowledge takes any id.  The store of alerts.py: process_alert fills it,
\* acknowledge takes any id.  The two classes share no field, so every state reached
\* by interleaving their operations pairs a state reached by driving the one alone
\* with a state reached by driving the other alone; a behaviour of SpecStores
\* drives one of the two.
HistoryBounds == {1, 2, max_history}

HistoryLevels == {"!", "i"}

HistoryMessages == {<<"CPU ", "97", "% on ", Hostname>>}

AlertIds == {FormatId(n) : n \in 1..(MaxAlerts + 1)}

Limits == 0..(MaxAlerts + 1)

StoreIds == 1..(MaxAlerts + 1)

InitStores ==
    /\ InitManager
    /\ InitBotManager
    /\ maxlen \in HistoryBounds
    /\ recipients \in RecipientLists
    /\ min_level = "warning"
    /\ cooldown_seconds = alert_cooldown
    /\ grouping_enabled \in BOOLEAN

\* only the history of bot.py has been driven so far
HistoryAlone == nextId = 1

\* only the store of alerts.py has been driven so far
AlertStoreAlone == alert_counter = 0

NextStores ==
    \/ /\ HistoryAlone
       /\ alert_counter < MaxAlerts
       /\ \E level \in HistoryLevels, message \in HistoryMessages :
              AddAlert(level, message, "system")
    \/ HistoryAlone /\ \E alert_id \in AlertIds : bot_acknowledge(alert_id)
    \/ HistoryAlone /\ bot_acknowledge_all
    \/ HistoryAlone /\ \E limit \in Limits : GetHistory(limit)
    \/ HistoryAlone /\ GetActiveCritical
    \/ /\ AlertStoreAlone
       /\ nextId <= MaxAlerts
       /\ ret.op = "none"
       /\ \E level \in Levels, source \in Sources, message \in Messages,
             timestamp \in Timestamps :
              process_alert(level, source, message, timestamp)
    \/ AlertStoreAlone /\ \E ok \in BOOLEAN : SendStep(ok)
    \/ AlertStoreAlone /\ Return
    \/ AlertStoreAlone /\ \E alert_id \in StoreIds : acknowledge(alert_id)
    \/ AlertStoreAlone /\ acknowledge_all
    \/ AlertStoreAlone /\ GetActiveAlerts
    \/ StoreReturn

SpecStores == InitStores /\ [][NextStores]_vars

\* Filling the two stores past the default bound: max_history + 1 alerts go into the
\* store of alerts.py (process_alert of the same WARNING alert, which is dispatched
\* or raises the first time and is inside its cooldown afterwards), or max_history
\* + 1 critical alerts go into the history of bot.py.
InitFill ==
    /\ InitManager
    /\ InitBotManager
    /\ maxlen = max_history
    /\ recipients \in RecipientLists
    /\ min_level = "warning"
    /\ cooldown_seconds = alert_cooldown
    /\ grouping_enabled \in BOOLEAN

NextFill ==
    \/ /\ AlertStoreAlone
       /\ nextId <= max_history + 1
       /\ \E source \in Sources : process_alert("warning", source, MsgLongX, 0)
    \/ \E ok \in BOOLEAN : SendStep(ok)
    \/ Return
    \/ /\ HistoryAlone
       /\ alert_counter <= max_history
       /\ \E message \in HistoryMessages : AddAlert("!", message, "monitor")
    \/ StoreReturn

SpecFill == InitFill /\ [][NextFill]_vars

\* _send_grouped_notification called directly.  The caller has built the records
\* and one group holding them in the order of their ids; the levels of the
\* members are free, the key of the group is the caller's.
LevelLists == UNION {[1..n -> Levels] : n \in 0..MaxMembers}

BuiltRecords(levels) ==
    [i \in DOMAIN levels |->
        [level |-> levels[i], message |-> MsgLongX, source |-> <<"d", "b">>,
         timestamp |-> 0, acknowledged |-> FALSE, notification_sent |-> FALSE]]

BuiltGroup(group_key, n) ==
    [key |-> group_key, alerts |-> [i \in 1..n |-> i], last_notification |-> <<>>,
     count |-> n]

InitFlush ==
    /\ InitBotManager
    /\ waiting = {}
    /\ maxlen = max_history
    /\ now = 0
    /\ \E levels \in LevelLists :
          /\ records = BuiltRecords(levels)
          /\ groups = [k \in {GroupKey("warning", <<"d", "b">>)} |->
                          BuiltGroup(k, Len(levels))]
          /\ nextId = Len(levels) + 1
    /\ alerts = <<>>
    /\ cooldowns = <<>>
    /\ pc = "idle"
    /\ cur = IdleCur
    /\ sent = <<>>
    /\ dispatchedAt = <<>>
    /\ ingested = {}
    /\ recipients \in RecipientLists
    /\ min_level = "warning"
    /\ cooldown_seconds = alert_cooldown
    /\ grouping_enabled = TRUE

NextFlush ==
    \/ /\ \A i \in DOMAIN records : ~records[i].notification_sent
       /\ \E group_key \in DOMAIN groups : send_grouped_notification(group_key)
    \/ \E ok \in BOOLEAN : SendStep(ok)
    \/ Return

SpecFlush == InitFlush /\ [][NextFlush]_vars

\* The pipeline of alerts.py with grouping switched on and off between calls
InitSwitch ==
    /\ InitManager
    /\ InitBotManager
    /\ maxlen = max_history
    /\ recipients \in RecipientLists
    /\ min_level \in {"info", "warning"}
    /\ cooldown_seconds \in CooldownChoices
    /\ grouping_enabled \in BOOLEAN

NextSwitch ==
    \/ /\ nextId <= MaxAlerts
       /\ \E level \in Levels, source \in Sources, message \in Messages,
             timestamp \in Timestamps :
              process_alert(level, source, message, timestamp)
    \/ \E ok \in BOOLEAN : SendStep(ok)
    \/ Return
    \/ Tick
    \/ \E enabled \in BOOLEAN : assign_grouping_enabled(enabled)

SpecSwitch == InitSwitch /\ [][NextSwitch]_vars

\* The pipeline of alerts.py under the scheduling of the event loop: an awaited
\* send ends, a call that has finished returns, and time passes.  Alerts arrive
\* when their producers have one; nothing obliges another alert to arrive.
InitLive ==
    /\ InitManager
    /\ InitBotManager
    /\ maxlen = max_history
    /\ recipients \in RecipientLists
    /\ min_level = "warning"
    /\ cooldown_seconds \in CooldownChoices
    /\ grouping_enabled \in BOOLEAN

NextLive ==
    \/ /\ nextId <= MaxAlerts
       /\ \E level \in Levels, source \in Sources, message \in Messages,
             timestamp \in Timestamps :
              process_alert(level, source, message, timestamp)
    \/ \E ok \in BOOLEAN : SendStep(ok)
    \/ Return
    \/ Tick

Fairness ==
    /\ WF_vars(\E ok \in BOOLEAN : SendStep(ok))
    /\ WF_vars(Return)
    /\ WF_vars(Tick)

SpecLive == InitLive /\ [][NextLive]_vars /\ Fairness

\* The pipeline of alerts.py run by concurrent tasks: up to MaxTasks calls of
\* process_alert are in progress, one running and the others set aside at a send.
InitTasks ==
    /\ InitManager
    /\ InitBotManager
    /\ maxlen = max_history
    /\ recipients \in RecipientLists
    /\ min_level = "warning"
    /\ cooldown_seconds \in CooldownChoices
    /\ grouping_enabled \in BOOLEAN

NextTasks ==
    \/ /\ nextId <= MaxAlerts
       /\ Cardinality(waiting) < MaxTasks
       /\ \E level \in {"warning", "critical"}, source \in Sources,
             message \in Messages, timestamp \in Timestamps :
              process_alert(level, source, message, timestamp)
    \/ \E ok \in BOOLEAN : SendStep(ok)
    \/ Return
    \/ Tick
    \/ Suspend
    \/ \E call \in waiting : Resume(call)

SpecTasks == InitTasks /\ [][NextTasks]_vars

\* Pruning the store of alerts.py by age.  The clock stands at 24 or 25 hours; the
\* records carry the timestamps their callers gave them, none in the future.
PruneClock == {24 * SecondsPerHour, 25 * SecondsPerHour}

PruneStamps == {0, SecondsPerHour, 24 * SecondsPerHour}

\* max_age_hours: the default of alerts.py:236 and a shorter age
MaxAges == {1, 24}

InitPrune ==
    /\ InitBotManager
    /\ maxlen = max_history
    /\ records = <<>>
    /\ alerts = <<>>
    /\ groups = <<>>
    /\ cooldowns = <<>>
    /\ nextId = 1
    /\ pc = "idle"
    /\ cur = IdleCur
    /\ sent = <<>>
    /\ dispatchedAt = <<>>
    /\ ingested = {}
    /\ now \in PruneClock
    /\ waiting = {}
    /\ recipients \in RecipientLists
    /\ min_level = "warning"
    /\ cooldown_seconds = alert_cooldown
    /\ grouping_enabled \in BOOLEAN

NextPrune ==
    \/ /\ nextId <= MaxAlerts
       /\ ret.op = "none"
       /\ \E level \in {"info", "warning"}, source \in Sources,
             timestamp \in PruneStamps :
              process_alert(level, source, MsgLongX, timestamp)
    \/ \E ok \in BOOLEAN : SendStep(ok)
    \/ Return
    \/ \E alert_id \in StoreIds : acknowledge(alert_id)
    \/ \E max_age_hours \in MaxAges : clear_old_alerts(max_age_hours)
    \/ StoreReturn

SpecPrune == InitPrune /\ [][NextPrune]_vars

\* The four-alert scenario of the testable properties: WARNING alerts for source
\* "api-2" at t = 0, 5, 10 and 40 seconds under the defaults of config.py:55-56, with
\* any messages; the alert_grouping default is True (config.py:57), the other value
\* is kept for comparison.
ScenarioTimes == <<0, 5, 10, 40>>

Api2 == <<"a", "p", "i", "-", "2">>

ScenarioMessages == Messages \cup {<<"l", "a", "g">>}

InitScenario ==
    /\ InitManager
    /\ InitBotManager
    /\ maxlen = max_history
    /\ recipients \in RecipientLists
    /\ min_level = "warning"
    /\ cooldown_seconds = alert_cooldown
    /\ grouping_enabled \in BOOLEAN

ScenarioAlert(message) ==
    /\ nextId <= Len(ScenarioTimes)
    /\ now = ScenarioTimes[nextId]
    /\ process_alert("warning", Api2, message, now)

\* nothing happens until the time of the next alert
ScenarioWait ==
    /\ pc = "idle"
    /\ nextId <= Len(ScenarioTimes)
    /\ now < ScenarioTimes[nextId]
    /\ now' = ScenarioTimes[nextId]
    /\ UNCHANGED <<config, records, alerts, groups, cooldowns, nextId, pc, cur, sent,
                   dispatchedAt, ingested, botvars>>

NextScenario ==
    \/ \E message \in ScenarioMessages : ScenarioAlert(message)
    \/ \E ok \in BOOLEAN : SendStep(ok)
    \/ Return
    \/ ScenarioWait

SpecScenario == InitScenario /\ [][NextScenario]_vars

\* The pipeline of alerts.py when the notification channel may stall: a call that
\* has finished returns and time passes, but nothing in the code ends an awaited
\* send_message (alerts.py:141-145 and bot.py:1016-1021 pass no timeout and are not
\* wrapped in one), so the end of a send is left to the channel.
StallFairness ==
    /\ WF_vars(Return)
    /\ WF_vars(Tick)

SpecStall == InitLive /\ [][NextLive]_vars /\ StallFairness

\* RealDataProvider.get_servers, bot.py:146-200.  The three probes run in this order
\* inside one try; a probe that raises (a subprocess that times out, an output
\* float() rejects) ends the try, so its metric and the later ones stay None.  The
\* exception is logged and the metrics are returned all the same (bot.py:196-200);
\* the status set there is not read by get_alerts.  failed_at = 0: no probe raised.
get_servers(cpu, mem, disk, failed_at) ==
    Metrics(IF failed_at \in 1..1 THEN <<>> ELSE cpu,
            IF failed_at \in 1..2 THEN <<>> ELSE mem,
            IF failed_at \in 1..3 THEN <<>> ELSE disk)

\* the probe that raises, if any
FailurePoints == 0..3

\* A critical condition that persists: the CPU stands at 97.2% for the whole run,
\* memory and disk at 50%, no container is stopped; on any tick the source answers
\* or fails at one of its probes.
PersistingCpu == <<972>>

Healthy == <<500>>

OutageTick(failed_at) ==
    JobRun(get_servers(PersistingCpu, Healthy, Healthy, failed_at), <<>>)

NextOutage ==
    \/ /\ alert_counter <= MaxAlerts
       /\ now <= (MaxTime + 1) * JobInterval
       /\ \E failed_at \in FailurePoints : OutageTick(failed_at)
    \/ \E outcome \in DeleteOutcomes, removed \in BOOLEAN : JobDelete(outcome, removed)
    \/ \E ok \in BOOLEAN : JobSend(ok)
    \/ JobReturn

SpecOutage == InitBot /\ [][NextOutage]_vars

\* The pipeline of alerts.py fed with sources and messages that contain the
\* separator of the cooldown key.  AlertRecord.source and .message are plain str
\* (alerts.py:27-28); process_alert takes them as the caller built them.
KeySources == {<<"a">>, <<"a", ":", "b">>}

KeyMessages == {<<"c">>, <<"b", ":", "c">>, MsgLongX, MsgLongY}

NextKeys ==
    \/ /\ nextId <= MaxAlerts
       /\ \E level \in {"warning", "critical"}, source \in KeySources,
             message \in KeyMessages, timestamp \in Timestamps :
              process_alert(level, source, message, timestamp)
    \/ \E ok \in BOOLEAN : SendStep(ok)
    \/ Return
    \/ Tick

SpecKeys == InitLive /\ [][NextKeys]_vars

\* The job on the clock with the readings that tell its deduplication apart: no
\* critical alert, a critical CPU, a critical CPU with a critical memory behind it,
\* and a critical memory alone; no container is stopped.
DedupReadings == {Metrics(<<>>, <<>>, <<>>),
                  Metrics(<<972>>, <<>>, <<>>),
                  Metrics(<<972>>, <<972>>, <<>>),
                  Metrics(<<>>, <<972>>, <<>>)}

NextDedup ==
    \/ /\ alert_counter < MaxAlerts
       /\ now <= MaxTime * JobInterval
       /\ \E metrics \in DedupReadings : JobRun(metrics, <<>>)
    \/ \E outcome \in DeleteOutcomes, removed \in BOOLEAN : JobDelete(outcome, removed)
    \/ \E ok \in BOOLEAN : JobSend(ok)
    \/ JobReturn

SpecDedup == InitBot /\ [][NextDedup]_vars

\* Two critical conditions that persist: on every tick the CPU is above its
\* critical threshold, at 97.2% or at 98.4%, and so is the memory, at 97.2%.
BothCritical == {Metrics(<<972>>, <<972>>, <<>>), Metrics(<<984>>, <<972>>, <<>>)}

\* One run of the job under these readings.  The CPU reading changes its message a
\* bounded number of times; runs that read what the run before read go on for ever.
BothTick ==
    \E metrics \in BothCritical :
        /\ \/ alert_counter < MaxAlerts
           \/ check_critical_alerts(get_alerts(metrics, <<>>)) = <<>>
        /\ JobStart(metrics, <<>>)

NextBoth ==
    \/ BothTick
    \/ \E outcome \in DeleteOutcomes, removed \in BOOLEAN : JobDelete(outcome, removed)
    \/ \E ok \in BOOLEAN : JobSend(ok)
    \/ JobReturn

\* The job queue starts every run that is due (bot.py:1073-1077), Telegram answers
\* every call, and a run that has gone through the users returns.
BothFairness ==
    /\ WF_vars(BothTick)
    /\ WF_vars(\E outcome \in DeleteOutcomes, removed \in BOOLEAN :
                  JobDelete(outcome, removed))
    /\ WF_vars(\E ok \in BOOLEAN : JobSend(ok))
    /\ WF_vars(JobReturn)

SpecBoth == InitBot /\ [][NextBoth]_vars /\ BothFairness

\* The dashboards: users open them with /status and close them with the button,
\* the refresh job and the Refresh button run update_dashboard, one run at a time.
\* The handlers run on one event loop, so a callback may run while update_dashboard
\* awaits an edit.
NextDash ==
    \/ /\ next_message_id <= MaxMessages
       /\ \E user_id \in Users, chat_id \in Chats, metrics \in DashReadings,
             ok \in BOOLEAN : cmd_status(user_id, chat_id, metrics, ok)
    \/ \E user_id \in Users, chat_id \in Chats, message \in 1..MaxMessages,
          edited \in BOOLEAN :
          handle_dashboard_callback_close(user_id, chat_id, message, edited)
    \/ \E metrics \in DashReadings : dashboard_refresh_job(metrics)
    \/ \E user_id \in Users, chat_id \in Chats, message \in 1..MaxMessages,
          metrics \in DashReadings :
          handle_dashboard_callback_refresh(user_id, chat_id, message, metrics)
    \/ \E outcome \in EditOutcomes : UpdateEdit(outcome)
    \/ UpdateReturn

SpecDash == InitBot /\ [][NextDash]_vars

\* what a user can do to the bot: the commands that lead to a change of state and
\* the buttons that make one
ActsAs(user_id) ==
    \E chat_id \in Chats :
        \/ \E metrics \in DashReadings, ok \in BOOLEAN :
              cmd_status(user_id, chat_id, metrics, ok)
        \/ cmd_config(user_id, chat_id)
        \/ \E metrics \in DashReadings : cmd_alerts(user_id, chat_id, metrics)
        \/ \E message \in 1..(next_message_id - 1) :
              \/ \E new_interval \in RefreshChoices :
                    handle_config_callback(user_id, chat_id, message, new_interval)
              \/ \E edited \in BOOLEAN :
                    handle_dashboard_callback_close(user_id, chat_id, message, edited)
              \/ callback_ack_all(user_id, chat_id, message)

\* The bot with its users, in private chats and in a group: the critical-alert job
\* fills the history, the users send commands and press buttons.
NextAccess ==
    \/ /\ alert_counter < MaxAlerts
       /\ \E metrics \in DashReadings : JobStart(metrics, <<>>)
    \/ \E outcome \in DeleteOutcomes, removed \in BOOLEAN : JobDelete(outcome, removed)
    \/ \E ok \in BOOLEAN : JobSend(ok)
    \/ JobReturn
    \/ /\ next_message_id <= MaxMessages
       /\ \E user_id \in Users, chat_id \in Chats, metrics \in DashReadings,
             ok \in BOOLEAN : cmd_status(user_id, chat_id, metrics, ok)
    \/ /\ next_message_id <= MaxMessages
       /\ \E user_id \in Users, chat_id \in Chats : cmd_config(user_id, chat_id)
    \/ /\ next_message_id <= MaxMessages
       /\ \E user_id \in Users, chat_id \in Chats, metrics \in DashReadings :
             cmd_alerts(user_id, chat_id, metrics)
    \/ \E user_id \in Users, chat_id \in Chats, message \in 1..MaxMessages,
          new_interval \in RefreshChoices :
          handle_config_callback(user_id, chat_id, message, new_interval)
    \/ \E user_id \in Users, chat_id \in Chats, message \in 1..MaxMessages,
          edited \in BOOLEAN :
          handle_dashboard_callback_close(user_id, chat_id, message, edited)
    \/ \E user_id \in Users, chat_id \in Chats, message \in 1..MaxMessages :
          callback_ack_all(user_id, chat_id, message)

\* the allow-list names one user: the others are outside it
InitAccess ==
    /\ InitBot
    /\ Len(recipients) = 1

SpecAccess == InitAccess /\ [][NextAccess]_vars

\* =========================================================== the claims
PassesLevel == level_order(cur.alert.level) >= level_order(cur.cfg.min_level)

WithinCooldown ==
    /\ cur.prior # <<>>
    /\ cur.t0 - cur.prior[1] < cur.cfg.cooldown_seconds

\* C1 (cooldown correctness): a call that starts less than cooldown_seconds after
\* the last dispatch of an alert with the same key (level, source, first 20
\* characters of the message) sends nothing to any recipient and dispatches
\* nothing, whatever the grouping mode.
C1_CooldownCorrectness ==
    (pc # "idle" /\ WithinCooldown) => (sent = <<>> /\ cur.outcome = "skipped")

\* A call for an admitted level, with recipients configured, that the cooldown of an
\* earlier dispatch (of a message that differs after the 20th character) rejected.
C1_Witness ==
    /\ pc = "done"
    /\ WithinCooldown
    /\ PassesLevel
    /\ recipients # <<>>
    /\ cur.outcome = "skipped"
    /\ \E i \in DOMAIN records :
          /\ i # cur.id
          /\ records[i].notification_sent
          /\ KeyOf(records[i]) = cur.key
          /\ records[i].message # cur.alert.message

\* C2 (severity gate): a call for an alert whose level ranks below min_level sends
\* nothing, leaves the alert out of every group and leaves its notification_sent
\* flag False, for every min_level and both grouping modes.
C2_SeverityGate ==
    (pc # "idle" /\ ~PassesLevel)
        => /\ sent = <<>>
           /\ cur.outcome = "skipped"
           /\ \A k \in DOMAIN groups : cur.id \notin Range(groups[k].alerts)
           /\ ~records[cur.id].notification_sent

\* A WARNING alert below min_level CRITICAL, with no cooldown entry for its key and
\* recipients configured, was rejected.
C2_Witness ==
    /\ pc = "done"
    /\ cur.alert.level = "warning"
    /\ cur.cfg.min_level = "critical"
    /\ cur.fresh
    /\ recipients # <<>>
    /\ cur.outcome = "skipped"

\* C3 (ingestion always records): from the first step of a process_alert call on,
\* the alert passed in is in the store under its id, whatever the call then does.
C3_AlwaysRecorded ==
    pc # "idle"
        => /\ cur.id \in Range(alerts)
           /\ cur.id \in DOMAIN records
           /\ records[cur.id].level = cur.alert.level
           /\ records[cur.id].source = cur.alert.source
           /\ records[cur.id].message = cur.alert.message

\* The store holds a dispatched alert and a later one the filter rejected.
C3_Witness ==
    /\ pc = "done"
    /\ cur.outcome = "skipped"
    /\ Len(alerts) = 2
    /\ \E i \in Range(alerts) : records[i].notification_sent
    /\ \E i \in Range(alerts) : i = cur.id /\ ~records[i].notification_sent

\* C4 (the filter has no side effect): the step of a call that rejects the alert
\* changes neither the cooldown table, nor the groups, nor any record already
\* stored, and stores the new record with both flags False; a step that only
\* appends the alert to a group leaves the cooldown table unchanged.
C4_FilterNoSideEffect ==
    [][(pc = "idle" /\ pc' = "done" /\ cur'.outcome \in {"skipped", "batched"})
          => /\ cooldowns' = cooldowns
             /\ dispatchedAt' = dispatchedAt
             /\ (cur'.outcome = "skipped"
                   => /\ groups' = groups
                      /\ \A i \in DOMAIN records : records'[i] = records[i]
                      /\ ~records'[cur'.id].notification_sent
                      /\ ~records'[cur'.id].acknowledged)]_vars

\* A call rejected by the cooldown gate at a later time than the dispatch: the
\* table still holds the time of the dispatch, not the time of the rejected alert.
C4_Witness ==
    /\ pc = "done"
    /\ cur.outcome = "skipped"
    /\ PassesLevel
    /\ cur.key \in DOMAIN cooldowns
    /\ cooldowns[cur.key] < now
    /\ cooldowns[cur.key] = cur.prior[1]

\* C9 (cooldown expiry): with grouping disabled, an alert of an admitted level is
\* dispatched when its key has no cooldown entry, and when the last dispatch of its
\* key is at least cooldown_seconds old; every recipient is then attempted.
C9_CooldownExpiry ==
    (/\ pc # "idle"
     /\ ~cur.cfg.grouping
     /\ PassesLevel
     /\ \/ cur.fresh
        \/ cur.prior # <<>> /\ cur.t0 - cur.prior[1] >= cur.cfg.cooldown_seconds)
        => /\ cur.outcome = "dispatched"
           /\ records[cur.id].notification_sent
           /\ (pc = "done" => Len(sent) = Len(recipients))

\* The same alert dispatched a second time, once the cooldown of its first
\* dispatch had run out.
C9_Witness ==
    /\ pc = "done"
    /\ ~cur.cfg.grouping
    /\ cur.prior # <<>>
    /\ cur.t0 - cur.prior[1] >= cur.cfg.cooldown_seconds
    /\ cur.outcome = "dispatched"
    /\ recipients # <<>>
    /\ Len(sent) = Len(recipients)
    /\ \E i \in DOMAIN records : i # cur.id /\ records[i].message = cur.alert.message

\* C5 (critical bypass): with grouping enabled, every admitted CRITICAL alert is
\* dispatched within the process_alert call that ingested it: the call ends with a
\* dispatch that carries the alert and has attempted every recipient.
C5_CriticalBypass ==
    (pc = "done" /\ cur.cfg.grouping /\ cur.admitted /\ cur.alert.level = "critical")
        => /\ cur.outcome = "dispatched"
           /\ cur.id \in Range(cur.members)
           /\ Len(sent) = Len(recipients)

\* C6 (cold-start flush): with grouping enabled, the first alert ingested for a group
\* key that has never flushed is dispatched in the same call, alone, also when its
\* level is not CRITICAL.
C6_ColdStartFlush ==
    (pc = "done" /\ cur.cfg.grouping /\ cur.admitted /\ cur.never_flushed
        /\ ~cur.regrouped)
        => /\ cur.outcome = "dispatched"
           /\ cur.members = <<cur.id>>
           /\ Len(sent) = Len(recipients)

C8_BatchingScenario ==
    (pc = "done" /\ cur.cfg.grouping)
        => CASE cur.id = 1 -> /\ cur.t0 = ScenarioTimes[1]
                              /\ cur.outcome = "dispatched"
                              /\ Len(cur.members) = 1
             [] cur.id = 2 -> /\ cur.outcome = "batched"
                              /\ cur.gkey \in DOMAIN groups
                              /\ groups[cur.gkey].count = 1
             [] cur.id = 3 -> /\ cur.outcome = "batched"
                              /\ cur.gkey \in DOMAIN groups
                              /\ groups[cur.gkey].count = 2
             [] cur.id = 4 -> /\ cur.t0 = ScenarioTimes[4]
                              /\ cur.outcome = "dispatched"
                              /\ Len(cur.members) = 3
             [] OTHER -> TRUE

\* C10 (independent fan-out): when the critical-alert job has gone through the
\* users, every configured recipient has had exactly one send attempt, whatever the
\* outcome of the deletes and sends of the other recipients and of its own delete.
C10_IndependentFanOut ==
    jpc = "done"
        => \A i \in 1..Len(recipients) :
              Cardinality({k \in 1..Len(jlog) :
                              jlog[k].op = "send" /\ jlog[k].user = recipients[i]}) = 1

\* C11 (attempted, not delivered): once a dispatch is complete, the cooldown entry of
\* the key of every record it carried holds a time of that dispatch and every such
\* record has notification_sent set, whatever the outcomes of the sends.
C11_AttemptedNotDelivered ==
    (pc = "done" /\ cur.outcome = "dispatched")
        => \A i \in Range(cur.members) :
              /\ records[i].notification_sent
              /\ KeyOf(records[i]) \in DOMAIN cooldowns
              /\ cur.t0 <= cooldowns[KeyOf(records[i])]
              /\ cooldowns[KeyOf(records[i])] <= now

\* A dispatch to two or more recipients is complete and every send of it failed.
C11_Witness ==
    /\ pc = "done"
    /\ cur.outcome = "dispatched"
    /\ Len(recipients) >= 2
    /\ Len(sent) = Len(recipients)
    /\ \A k \in DOMAIN sent : ~sent[k].ok
    /\ records[cur.id].notification_sent
    /\ cooldowns[cur.key] = cur.t0

\* C12 (join ordering): while a send of a dispatch is outstanding, no record of the
\* dispatch has notification_sent set, and the dispatch has written no cooldown
\* entry (a key that had none when the call began still has none).
C12_JoinOrdering ==
    pc = "send"
        => /\ \A i \in Range(cur.members) : ~records[i].notification_sent
           /\ (cur.fresh => cur.key \notin DOMAIN cooldowns)

\* the messages of a user's chat that show a critical alert nobody has acknowledged
VisibleUnacknowledged(user_id) ==
    {m \in chat[user_id] : /\ message_of[m].text = "alert"
                           /\ ~hrecords[message_of[m].record].acknowledged}

\* C13 (sticky critical): whatever job runs, delete and send outcomes and
\* acknowledgements came before, the chat of every recipient holds at most one
\* visible critical-alert message that is not acknowledged.
C13_StickyCritical ==
    \A user_id \in Users : Cardinality(VisibleUnacknowledged(user_id)) <= 1

\* C14 (delete failures are swallowed): when the critical-alert job has gone through
\* the users, every delete attempt of the run, whatever its outcome, was followed by
\* a send attempt to the same user.
C14_DeleteFailureSwallowed ==
    jpc = "done"
        => \A k \in DOMAIN jlog :
              jlog[k].op = "delete"
                 => \E k2 \in DOMAIN jlog :
                       /\ k2 > k
                       /\ jlog[k2].op = "send"
                       /\ jlog[k2].user = jlog[k].user

\* C16 (record ids): the n-th add_alert creates the record with id "ALR-" and n
\* padded with zeros to four digits, and returns it; no two records ever created,
\* evicted ones included, share an id, and the history holds them in creation order.
C16_SequentialIds ==
    /\ DOMAIN hrecords = 1..alert_counter
    /\ \A n \in DOMAIN hrecords :
          n <= 9 => hrecords[n].id = <<"A", "L", "R", "-", "0", "0", "0", ToString(n)>>
    /\ \A n, m \in DOMAIN hrecords : hrecords[n].id = hrecords[m].id => n = m
    /\ \A i, j \in DOMAIN history : i < j => history[i] < history[j]
    /\ (ret.op = "add_alert" => ret.value = <<alert_counter>>)

\* add_alert has just returned its second record or a later one; the first record
\* was acknowledged and has been evicted since.
C16_Witness ==
    /\ ret.op = "add_alert"
    /\ alert_counter >= 2
    /\ Len(history) < alert_counter
    /\ hrecords[1].acknowledged

MostRecentCritical ==
    LET crits == {n \in DOMAIN hrecords : hrecords[n].level = "!"}
    IN IF crits = {} THEN <<>>
       ELSE <<CHOOSE n \in crits : \A m \in crits : m <= n>>

\* C17 (last-critical pointer): as long as acknowledge_all has not been called,
\* get_active_critical gives the most recently recorded critical record when that
\* record is unacknowledged and None otherwise, and the pointer is the most recently
\* recorded critical record whatever was recorded after it.
C17_LastCriticalPointer ==
    ~acked_all
        => /\ last_critical = MostRecentCritical
           /\ get_active_critical =
                 (IF /\ MostRecentCritical # <<>>
                     /\ ~hrecords[MostRecentCritical[1]].acknowledged
                  THEN MostRecentCritical ELSE <<>>)
           /\ (ret.op = "get_active_critical" => ret.value = get_active_critical)

\* get_active_critical has returned a critical record although a non-critical record
\* was recorded after it.
C17_Witness ==
    /\ ~acked_all
    /\ ret.op = "get_active_critical"
    /\ ret.value # <<>>
    /\ hrecords[ret.value[1]].level = "!"
    /\ \E n \in DOMAIN hrecords : n > ret.value[1] /\ hrecords[n].level = "i"

\* C18 (acknowledge): a call of acknowledge, of either store, returns whether a
\* record with the id is in the store, sets the acknowledged flag of that record and
\* changes nothing else: no other record, not the contents of the store, not the
\* last-critical pointer, not the active-message map.
C18_Acknowledge ==
    [][/\ (ret.op = "none" /\ ret'.op = "bot.acknowledge")
            => LET stored == {n \in Range(history) : hrecords[n].id = ret'.arg[1]}
               IN /\ ret'.value = <<stored # {}>>
                  /\ hrecords' = [n \in DOMAIN hrecords |->
                                     IF n \in stored
                                     THEN [hrecords[n] EXCEPT !.acknowledged = TRUE]
                                     ELSE hrecords[n]]
                  /\ UNCHANGED <<history, alert_counter, last_critical,
                                 active_alert_messages>>
       /\ (ret.op = "none" /\ ret'.op = "acknowledge")
            => LET stored == Range(alerts) \cap {ret'.arg[1]}
               IN /\ ret'.value = <<stored # {}>>
                  /\ records' = [i \in DOMAIN records |->
                                    IF i \in stored
                                    THEN [records[i] EXCEPT !.acknowledged = TRUE]
                                    ELSE records[i]]
                  /\ UNCHANGED <<alerts, groups, cooldowns>>]_vars

\* acknowledge of the bot's history has returned False for the id of a record that
\* was evicted, while the history holds another record, still unacknowledged.
C18_Witness ==
    /\ ret.op = "bot.acknowledge"
    /\ ret.value = <<FALSE>>
    /\ \E n \in DOMAIN hrecords : n \notin Range(history) /\ hrecords[n].id = ret.arg[1]
    /\ \E n \in Range(history) : ~hrecords[n].acknowledged

AllAcknowledged ==
    /\ \A n \in Range(history) : hrecords[n].acknowledged
    /\ last_critical = <<>>

\* C19 (acknowledge_all): a call of acknowledge_all leaves every stored record
\* acknowledged, no active alert and no active critical alert, without changing
\* which records are stored or their order; this lasts through every step that
\* records no alert.
C19_AcknowledgeAll ==
    [][/\ (ret.op = "none" /\ ret'.op = "bot.acknowledge_all")
            => /\ AllAcknowledged'
               /\ get_active_critical' = <<>>
               /\ history' = history
       /\ (AllAcknowledged /\ alert_counter' = alert_counter)
            => (AllAcknowledged' /\ get_active_critical' = <<>>)
       /\ (ret.op = "none" /\ ret'.op = "acknowledge_all")
            => /\ get_active_alerts' = <<>>
               /\ alerts' = alerts
       /\ (get_active_alerts = <<>> /\ alerts' = alerts) => get_active_alerts' = <<>>]_vars

\* acknowledge_all of the bot's history has returned; the history holds a critical
\* record that was unacknowledged and was the active critical alert before.
C19_Witness ==
    /\ ret.op = "bot.acknowledge_all"
    /\ last_critical = <<>>
    /\ MostRecentCritical # <<>>
    /\ MostRecentCritical[1] \in Range(history)
    /\ Len(history) >= 2
    /\ \A n \in Range(history) : hrecords[n].acknowledged

\* C21 (age-based pruning): clear_old_alerts(max_age_hours) removes from the store
\* exactly the records whose timestamp is earlier than now - max_age_hours, keeps
\* every other record in place (one whose timestamp equals that instant included),
\* whatever its acknowledged flag, and changes no record.
C21_PruneOlderThan ==
    [][(ret.op = "none" /\ ret'.op = "clear_old_alerts")
        => /\ alerts' = SelectSeq(alerts, LAMBDA id :
                            ~(records[id].timestamp
                                < now - ret'.arg[1] * SecondsPerHour))
           /\ records' = records]_vars

\* position of a member in the member list of the flush in progress
MemberIndex(id) == CHOOSE k \in DOMAIN cur.members : cur.members[k] = id

\* C22 (representative selection): the representative of a flush is a member of the
\* highest severity rank among the members, and the first of that rank in insertion
\* order; for members of levels [WARNING, CRITICAL, WARNING] it is the CRITICAL one.
C22_RepresentativeSelection ==
    (cur.mode = "flush" /\ cur.outcome = "dispatched")
        => /\ cur.main \in Range(cur.members)
           /\ \A k \in DOMAIN cur.members :
                 /\ level_order(records[cur.members[k]].level)
                       <= level_order(records[cur.main].level)
                 /\ k < MemberIndex(cur.main)
                       => level_order(records[cur.members[k]].level)
                             < level_order(records[cur.main].level)
           /\ [k \in DOMAIN cur.members |-> records[cur.members[k]].level]
                    = <<"warning", "critical", "warning">>
                 => cur.main = cur.members[2]

\* a flush of members [WARNING, CRITICAL, WARNING] has gone through the recipients
C22_Witness ==
    /\ cur.mode = "flush"
    /\ pc = "done"
    /\ Len(sent) = MaxRecipients
    /\ [k \in DOMAIN cur.members |-> records[cur.members[k]].level]
           = <<"warning", "critical", "warning">>
    /\ cur.main = cur.members[2]

C25_GroupingDisabled ==
    /\ []((pc = "done" /\ ~cur.cfg.grouping /\ cur.admitted)
            => /\ cur.outcome = "dispatched"
               /\ cur.mode = "single"
               /\ cur.members = <<cur.id>>
               /\ [k \in DOMAIN sent |-> sent[k].to] = recipients)
    /\ [][(pc' # "idle" /\ ~cur'.cfg.grouping)
            => /\ groups' = groups
               /\ ingested' = ingested]_vars

\* with grouping disabled an admitted alert has been sent to every recipient, and
\* one of the sends failed
C25_Witness ==
    /\ pc = "done"
    /\ ~cur.cfg.grouping
    /\ cur.admitted
    /\ Len(sent) = MaxRecipients
    /\ \E k \in DOMAIN sent : ~sent[k].ok

C27_EmptyRecipients ==
    (pc = "done" /\ recipients = <<>> /\ cur.admitted)
        => /\ sent = <<>>
           /\ ~records[cur.id].notification_sent
           /\ cur.fresh => cur.key \notin DOMAIN cooldowns

\* C28 (bounded staleness): every alert that is admitted and taken on the grouped
\* path is dispatched at some later time, whether or not another alert of its group
\* key arrives.
C28_BoundedStaleness ==
    \A i \in 1..MaxAlerts :
        (pc = "done" /\ cur.id = i /\ cur.cfg.grouping /\ cur.admitted)
            ~> (i \in DOMAIN records /\ records[i].notification_sent)

\* C29 (the job runs the filter chain): the critical-alert job never sends
\* notifications for two alerts of the same level, source and message (hence of the
\* same cooldown key) that were raised less than cooldown_seconds apart.
C29_JobFilterChain ==
    \A m1 \in DOMAIN message_of, m2 \in DOMAIN message_of :
        LET r1 == hrecords[message_of[m1].record]
            r2 == hrecords[message_of[m2].record]
        IN (/\ message_of[m1].record < message_of[m2].record
            /\ r1.level = r2.level
            /\ r1.source = r2.source
            /\ r1.message = r2.message)
               => r2.timestamp - r1.timestamp >= cooldown_seconds

\* the calls of process_alert in progress: the running one and those set aside
InProgress ==
    waiting \cup (IF pc = "idle" THEN {} ELSE {[pc |-> pc, cur |-> cur, sent |-> sent]})

C31_StalledChannel ==
    (pc = "send") ~> (pc = "done")

\* C32 (a failed tick is skipped): while one critical condition persists, a tick on
\* which the metric source fails leaves cooldown table, groups, history, active
\* messages and the last-critical marker of the monitor as they were and starts no
\* send, and the condition is recorded and notified once, however many ticks fail.
C32_FailedTickSkipped ==
    /\ [](\A i \in DOMAIN hrecords, j \in DOMAIN hrecords :
             hrecords[i].message = hrecords[j].message => i = j)
    /\ [][(\E failed_at \in FailurePoints \ {0} : OutageTick(failed_at))
             => UNCHANGED <<cooldowns, groups, history, hrecords, last_critical,
                            active_alert_messages, monitor_last_critical, jpc>>]_vars

\* the stored alert i has the level, the source and the first 20 characters of the
\* message of the alert of the call in flight
SameTriple(i) ==
    /\ records[i].level = cur.alert.level
    /\ records[i].source = cur.alert.source
    /\ Slice(records[i].message, PrefixLen) = Slice(cur.alert.message, PrefixLen)

\* C33 (cooldown keys are independent): an alert that passes the level gate is
\* suppressed only when an alert of the same level, the same source and the same
\* first 20 characters of the message was dispatched before it; and when such an
\* alert was dispatched, the later one finds its cooldown entry, and is suppressed
\* if it arrives within the cooldown of that dispatch, also when the two messages
\* differ after the 20th character.
C33_IndependentKeys ==
    (pc = "done" /\ PassesLevel)
        => LET earlier == {i \in DOMAIN records :
                              /\ i # cur.id
                              /\ records[i].notification_sent
                              /\ SameTriple(i)}
           IN /\ cur.outcome = "skipped" => earlier # {}
              /\ earlier # {}
                    => /\ cur.prior # <<>>
                       /\ cur.t0 - cur.prior[1] < cur.cfg.cooldown_seconds
                             => cur.outcome = "skipped"

\* C34 (deduplication in the critical-alert job): a tick that finds the first
\* critical alert with the message the marker of the monitor holds adds no record
\* and starts no send; a tick that finds a critical alert while the marker is empty
\* (at the start, or after a tick without a critical alert, which empties it) adds
\* one record with that message and starts the loop over the recipients for it, at
\* the first of them; and one run attempts at most one send per recipient.
C34_JobDeduplication ==
    /\ [](\A i \in DOMAIN jlog, j \in DOMAIN jlog :
             (jlog[i].op = "send" /\ jlog[j].op = "send" /\ jlog[i].user = jlog[j].user)
                 => i = j)
    /\ [][now' # now
            => LET critical == critical_of(monitor_last_alerts') IN
               /\ (/\ critical # <<>>
                   /\ monitor_last_critical # <<>>
                   /\ monitor_last_critical[1].message = critical[1].message)
                     => /\ UNCHANGED <<history, hrecords, alert_counter, message_of>>
                        /\ jpc' = "idle"
               /\ (critical # <<>> /\ monitor_last_critical = <<>>)
                     => /\ alert_counter' = alert_counter + 1
                        /\ history' = Append(history, alert_counter')
                        /\ hrecords'[alert_counter'].message = critical[1].message
                        /\ job'.record = alert_counter'
                        /\ job'.idx = 1
                        /\ recipients # <<>> => jpc' \in {"delete", "send"}
               /\ critical = <<>>
                     => /\ monitor_last_critical' = <<>>
                        /\ UNCHANGED <<history, hrecords, alert_counter>>
                        /\ jpc' = "idle"]_vars

\* The tick at 0 s recorded a critical alert and sent it; the tick at 10 s found the
\* same message and recorded nothing.
C34_Witness ==
    /\ now = 2 * JobInterval
    /\ jpc = "idle"
    /\ alert_counter = 1
    /\ hrecords[1].timestamp = 0
    /\ message_of # <<>>
    /\ monitor_last_critical # <<>>
    /\ monitor_last_critical[1].message = hrecords[1].message

\* C35 (every critical condition is notified): when the monitor has found two
\* critical alerts at the same time and both conditions persist, each of the two is
\* eventually recorded in the history, from where the job sends it.
C35_EveryCriticalNotified ==
    \A k \in 1..2 :
        (Len(critical_of(monitor_last_alerts)) = 2)
            ~> (\E i \in DOMAIN hrecords :
                   hrecords[i].message[1] = critical_of(monitor_last_alerts)[k].message[1])

C37_ActiveMapAccurate ==
    jpc = "idle"
        => \A user_id \in DOMAIN active_alert_messages :
              /\ active_alert_messages[user_id] \in chat[user_id]
              /\ \A m \in chat[user_id] : m <= active_alert_messages[user_id]

\* C38 (the last-critical pointer never dangles): whenever last_critical is set, the
\* record it refers to is in the history, so acknowledge finds its id there, and
\* get_active_critical never returns a record the history has evicted.
C38_PointerNeverDangles ==
    /\ last_critical # <<>>
          => /\ last_critical[1] \in Range(history)
             /\ history_index(hrecords[last_critical[1]].id) # 0
    /\ (ret.op = "get_active_critical" /\ ret.value # <<>>)
          => ret.value[1] \in Range(history)

\* C40 (the refresh isolates failures per chat): when a run of update_dashboard is
\* over, the edit of every chat that was active when the run started has been
\* attempted, whatever the outcome of the other edits and whatever callbacks ran in
\* between; and the step that ends an edit removes the chat of that edit from the
\* active dashboards when the edit failed for another reason than "Message is not
\* modified", and leaves the active dashboards as they are otherwise.
C40_RefreshIsolation ==
    /\ [](upc = "done"
             => \A i \in DOMAIN upd.items :
                   \E k \in DOMAIN ulog : ulog[k].chat_id = upd.items[i].chat_id)
    /\ [][Len(ulog') = Len(ulog) + 1
             => LET edit == ulog'[Len(ulog')] IN
                active_messages' = IF edit.res = "error"
                                   THEN dict_del(active_messages, edit.chat_id)
                                   ELSE active_messages]_vars

\* C39 (users outside the allow-list change nothing): when the allow-list is not
\* empty, no command and no button press of a user who is not in it changes the
\* acknowledgement of a record, the last-critical pointer, the active alert
\* messages, the active dashboards or the refresh interval.
C39_OutsidersChangeNothing ==
    [][(\E user_id \in Users : ~authorized(user_id) /\ ActsAs(user_id))
          => UNCHANGED <<hrecords, last_critical, active_alert_messages,
                         active_messages, refresh_interval>>]_vars

\* C20 (get_history): get_history(limit) returns the last min(limit, size) records
\* of the history, oldest first; for limit 0 that is the empty sequence.
C20_GetHistory ==
    ret.op = "get_history"
        => ret.value = SubSeq(history,
                              Len(history) - Min(ret.arg[1], Len(history)) + 1,
                              Len(history))

\* C15 (history bound): each of the two stores holds at most the bound of records
\* (100 by default), and once more records than that have been recorded the bot's
\* history holds exactly the most recent ones, in order.
C15_HistoryBound ==
    /\ Len(history) <= maxlen
    /\ (alert_counter >= maxlen
          => history = [i \in 1..maxlen |-> alert_counter - maxlen + i])
    /\ Len(alerts) <= max_history

====
